---- MODULE Spec2Model ----
(***************************************************************************)
(* The rate-limited submission gateway of the date planner API:            *)
(*   api/src/utils/rateLimiter.ts     RateLimiter (fixed-window counter)   *)
(*   api/src/services/emailService.ts EmailService.sendPlanNotification    *)
(*   api/src/validation.ts            validatePlanSubmission               *)
(*   api/src/functions/submitPlan.ts  submitPlan (the HTTP handler)        *)
(* Time is the value Date.now() returns, in milliseconds since the process *)
(* loaded the rateLimiter module.                                          *)
(***************************************************************************)
EXTENDS Integers, Sequences, FiniteSets, TLC

VARIABLES
    now,        \* the wall clock, what Date.now() returns
    config,     \* RateLimiter.config of each limiter instance
    requests,   \* RateLimiter.requests of each instance: key -> entry
    last,       \* the latest direct isAllowed call (limiter-level runs)
    window,     \* per limiter and key: the window the claims speak of, kept beside the code
    inv,        \* the submitPlan / sendPlanNotification invocations in flight
    posts       \* number of POSTs the gateway has counted so far

vars == <<now, config, requests, last, window, inv, posts>>

(***************************************************************************)
(* Bounds of the model.                                                    *)
(***************************************************************************)
MaxGlobalWindows == 1   \* clock instants lie at the ends of this many one-minute windows
MaxIpWindows == 1       \* ... and of this many 15-minute windows
MaxN == 2               \* maxRequests of the limiters of the limiter-level runs
MaxPosts == 12          \* POSTs handled in one run of the gateway
WarmHeadroom == 2       \* a warm start leaves this many global slots in the current minute
NumInvocations == 1     \* invocations in flight at once
MaxClients == 1         \* identifiers holding a per-IP entry at once in a gateway run

(***************************************************************************)
(* Program constants.                                                      *)
(***************************************************************************)
SubmitPlanWindowMs == 15 * 60 * 1000
SubmitPlanMaxRequests == 10
GlobalWindowMs == 60 * 1000
GlobalMaxRequests == 100
CleanupIntervalMs == 5 * 60 * 1000

Limiters == {"globalRateLimiter", "submitPlanRateLimiter"}
Identifiers == {"global", "unknown", "203.0.113.1"}

WindowOf(l) == IF l = "globalRateLimiter" THEN GlobalWindowMs ELSE SubmitPlanWindowMs

\* The configurations the module builds its two instances with.
ModuleConfig ==
    [l \in Limiters |->
        IF l = "globalRateLimiter"
        THEN [windowMs |-> GlobalWindowMs, maxRequests |-> GlobalMaxRequests]
        ELSE [windowMs |-> SubmitPlanWindowMs, maxRequests |-> SubmitPlanMaxRequests]]

\* The instants at which the model lets something happen: the start, each
\* window boundary and the millisecond before it.
Instants ==
    {0} \cup { a * GlobalWindowMs - j : a \in 1..MaxGlobalWindows, j \in {0, 1} }
        \cup { b * SubmitPlanWindowMs - j : b \in 1..MaxIpWindows, j \in {0, 1} }

\* What a later Date.now() of the same synchronous run may return after one
\* that returned t: the same millisecond or the next.
LaterReads(t) == {t} \cup (Instants \cap {t + 1})

(***************************************************************************)
(* RateLimiter                                                             *)
(***************************************************************************)
\* Map.get(identifier) === undefined is an entry of count 0 (a stored entry
\* has count >= 1).
NoEntry == [count |-> 0, resetTime |-> 0]

RateLimitEntry == [count : Nat, resetTime : Nat]

\* isAllowed without the increment of the count inside an active window.
isAllowedNoIncrement(cfg, entry, t) ==
    IF entry = NoEntry \/ t >= entry.resetTime
    THEN [entry  |-> [count |-> 1, resetTime |-> t + cfg.windowMs],
          result |-> [allowed |-> TRUE, resetTime |-> t + cfg.windowMs,
                      remaining |-> cfg.maxRequests - 1]]
    ELSE IF entry.count >= cfg.maxRequests
    THEN [entry  |-> entry,
          result |-> [allowed |-> FALSE, resetTime |-> entry.resetTime, remaining |-> 0]]
    ELSE [entry  |-> entry,
          result |-> [allowed |-> TRUE, resetTime |-> entry.resetTime,
                      remaining |-> cfg.maxRequests - entry.count]]

\* isAllowed with an off-by-one limit test (count > maxRequests).
isAllowedOffByOne(cfg, entry, t) ==
    IF entry = NoEntry \/ t >= entry.resetTime
    THEN [entry  |-> [count |-> 1, resetTime |-> t + cfg.windowMs],
          result |-> [allowed |-> TRUE, resetTime |-> t + cfg.windowMs,
                      remaining |-> cfg.maxRequests - 1]]
    ELSE IF entry.count > cfg.maxRequests
    THEN [entry  |-> entry,
          result |-> [allowed |-> FALSE, resetTime |-> entry.resetTime, remaining |-> 0]]
    ELSE [entry  |-> [entry EXCEPT !.count = @ + 1],
          result |-> [allowed |-> TRUE, resetTime |-> entry.resetTime,
                      remaining |-> cfg.maxRequests - (entry.count + 1)]]

\* isAllowed of a limiter that keeps one count for all its keys: it reads the
\* fullest entry of the instance in place of the identifier's own.
isAllowedSharedBudget(cfg, entry, t) ==
    LET all == {requests[l][k] : l \in {m \in Limiters : config[m] = cfg},
                                 k \in Identifiers} \cup {entry}
        shared == CHOOSE e \in all : \A f \in all : f.count <= e.count
    IN  IF shared = NoEntry \/ t >= shared.resetTime
        THEN [entry  |-> [count |-> 1, resetTime |-> t + cfg.windowMs],
              result |-> [allowed |-> TRUE, resetTime |-> t + cfg.windowMs,
                          remaining |-> cfg.maxRequests - 1]]
        ELSE IF shared.count >= cfg.maxRequests
        THEN [entry  |-> shared,
              result |-> [allowed |-> FALSE, resetTime |-> shared.resetTime, remaining |-> 0]]
        ELSE [entry  |-> [shared EXCEPT !.count = @ + 1],
              result |-> [allowed |-> TRUE, resetTime |-> shared.resetTime,
                          remaining |-> cfg.maxRequests - (shared.count + 1)]]

\* RateLimiter.isAllowed on the entry stored for the identifier, with Date.now()
\* = t: the entry it stores and the result it returns.
isAllowed(cfg, entry, t) ==
    IF entry = NoEntry \/ t >= entry.resetTime
    THEN [entry  |-> [count |-> 1, resetTime |-> t + cfg.windowMs],
          result |-> [allowed |-> TRUE, resetTime |-> t + cfg.windowMs,
                      remaining |-> cfg.maxRequests - 1]]
    ELSE IF entry.count >= cfg.maxRequests
    THEN [entry  |-> entry,
          result |-> [allowed |-> FALSE, resetTime |-> entry.resetTime, remaining |-> 0]]
    ELSE [entry  |-> [entry EXCEPT !.count = @ + 1],
          result |-> [allowed |-> TRUE, resetTime |-> entry.resetTime,
                      remaining |-> cfg.maxRequests - (entry.count + 1)]]

\* a sweep that empties the map
cleanupAll(map, t) == [k \in DOMAIN map |-> NoEntry]

\* RateLimiter.cleanup with Date.now() = t: the map without its expired entries.
cleanup(map, t) ==
    [k \in DOMAIN map |->
        IF map[k] # NoEntry /\ t >= map[k].resetTime THEN NoEntry ELSE map[k]]

(***************************************************************************)
(* Strings are sequences of one-character strings; JSON values are tagged  *)
(* records; an object keeps its members in insertion order.                *)
(***************************************************************************)
Lower == {"a","b","c","d","e","f","g","h","i","j","k","l","m",
          "n","o","p","q","r","s","t","u","v","w","x","y","z"}
Upper == {"A","B","C","D","E","F","G","H","I","J","K","L","M",
          "N","O","P","Q","R","S","T","U","V","W","X","Y","Z"}
Digit == {"0","1","2","3","4","5","6","7","8","9"}
UpperSeq == <<"A","B","C","D","E","F","G","H","I","J","K","L","M",
              "N","O","P","Q","R","S","T","U","V","W","X","Y","Z">>
LowerSeq == <<"a","b","c","d","e","f","g","h","i","j","k","l","m",
              "n","o","p","q","r","s","t","u","v","w","x","y","z">>

\* \w, \s and the three character classes of validation.ts.
IsWord(c) == c \in Lower \cup Upper \cup Digit \cup {"_"}
IsSpace(c) == c \in {" ", "\t", "\n", "\r"}
IsNameChar(c) == c \in Lower \cup Upper \cup Digit \cup {"-", "'", ".", ","} \/ IsSpace(c)
IsActivityChar(c) == IsNameChar(c) \/ c \in {"!", "?", "(", ")", "&", ":"}
IsKept(c) == IsWord(c) \/ IsSpace(c) \/ c \in {"-", "'", ".", ",", "!", "?", "(", ")", "&", ":"}

\* a comparison that tells the cases apart
SameCase(c) == c
ToLower(c) == IF c \in Upper THEN LowerSeq[CHOOSE i \in 1..26 : UpperSeq[i] = c] ELSE c

All(s, P(_)) == \A i \in 1..Len(s) : P(s[i])
Filter(s, P(_)) == SelectSeq(s, P)
Rep(c, n) == [i \in 1..n |-> c]

RECURSIVE Flatten(_)
Flatten(ss) ==
    IF ss = <<>> THEN <<>>
    ELSE IF Len(ss) = 1 THEN ss[1]
    ELSE LET h == Len(ss) \div 2 IN
         Flatten(SubSeq(ss, 1, h)) \o Flatten(SubSeq(ss, h + 1, Len(ss)))

\* String.prototype.trim
trim(s) ==
    LET keep == { i \in 1..Len(s) : ~IsSpace(s[i]) } IN
    IF keep = {} THEN <<>>
    ELSE LET a == CHOOSE i \in keep : \A j \in keep : i <= j
             b == CHOOSE i \in keep : \A j \in keep : i >= j
         IN  SubSeq(s, a, b)

\* s.replace(/\s+/g, ' ')
RECURSIVE CollapseSpaces(_)
CollapseSpaces(s) ==
    IF s = <<>> THEN <<>>
    ELSE IF IsSpace(s[1])
    THEN LET rest == CollapseSpaces(Tail(s)) IN
         IF Len(s) > 1 /\ IsSpace(s[2]) THEN rest ELSE <<" ">> \o rest
    ELSE <<s[1]>> \o CollapseSpaces(Tail(s))

NotAngle(c) == c \notin {"<", ">"}
BreakToSpace(s) == [i \in 1..Len(s) |-> IF s[i] \in {"\r", "\n", "\t"} THEN " " ELSE s[i]]
MaxSanitizedLength == 500

\* sanitizeString
sanitizeString(input) ==
    LET t == CollapseSpaces(BreakToSpace(Filter(trim(input), NotAngle)))
        k == Filter(t, IsKept)
    IN  SubSeq(k, 1, IF Len(k) < MaxSanitizedLength THEN Len(k) ELSE MaxSanitizedLength)

\* JSON values.
Undefined == [t |-> "undefined"]
JNull == [t |-> "null"]
JNumber(n) == [t |-> "number", n |-> n]
JBoolean(b) == [t |-> "boolean", b |-> b]
JString(s) == [t |-> "string", s |-> s]
JArray(a) == [t |-> "array", a |-> a]
JObject(members) == [t |-> "object", m |-> members]
Member(k, v) == [k |-> k, v |-> v]

\* data[key]
Get(data, key) ==
    IF data.t = "object" /\ \E i \in 1..Len(data.m) : data.m[i].k = key
    THEN data.m[CHOOSE i \in 1..Len(data.m) : data.m[i].k = key].v
    ELSE Undefined

\* data[key] = value (a property set on an array is no member of it)
Set(data, key, value) ==
    IF data.t = "array" THEN data
    ELSE IF \E i \in 1..Len(data.m) : data.m[i].k = key
    THEN [data EXCEPT !.m = [i \in 1..Len(data.m) |->
                                IF data.m[i].k = key THEN Member(key, value) ELSE data.m[i]]]
    ELSE [data EXCEPT !.m = Append(@, Member(key, value))]

\* !value
Falsy(v) ==
    \/ v.t \in {"undefined", "null"}
    \/ v.t = "string" /\ v.s = <<>>
    \/ v.t = "number" /\ v.n = 0
    \/ v.t = "boolean" /\ ~v.b

(***************************************************************************)
(* JSON.stringify                                                          *)
(***************************************************************************)
KeyChars(k) ==
    CASE k = "name" -> <<"n","a","m","e">>
      [] k = "date" -> <<"d","a","t","e">>
      [] k = "time" -> <<"t","i","m","e">>
      [] k = "activities" -> <<"a","c","t","i","v","i","t","i","e","s">>
      [] k = "customActivity" -> <<"c","u","s","t","o","m","A","c","t","i","v","i","t","y">>
      [] k = "submittedAt" -> <<"s","u","b","m","i","t","t","e","d","A","t">>
      [] k = "userAgent" -> <<"u","s","e","r","A","g","e","n","t">>
      [] k = "ipAddress" -> <<"i","p","A","d","d","r","e","s","s">>
      [] k = "notes" -> <<"n","o","t","e","s">>

EscapeChar(c) ==
    CASE c = "\"" -> <<"\\", "\"">>
      [] c = "\\" -> <<"\\", "\\">>
      [] c = "\n" -> <<"\\", "n">>
      [] c = "\r" -> <<"\\", "r">>
      [] c = "\t" -> <<"\\", "t">>
      [] OTHER -> <<c>>

Quote(s) == <<"\"">> \o Flatten([i \in 1..Len(s) |-> EscapeChar(s[i])]) \o <<"\"">>

DigitSeq == <<"0","1","2","3","4","5","6","7","8","9">>
RECURSIVE DigitsOf(_)
DigitsOf(n) == IF n < 10 THEN <<DigitSeq[n + 1]>> ELSE DigitsOf(n \div 10) \o <<DigitSeq[(n % 10) + 1]>>

RECURSIVE Join(_)
Join(parts) ==
    IF parts = <<>> THEN <<>>
    ELSE IF Len(parts) = 1 THEN parts[1]
    ELSE parts[1] \o <<",">> \o Join(Tail(parts))

IsDefined(m) == m.v.t # "undefined"

RECURSIVE Stringify(_)
Stringify(v) ==
    CASE v.t = "string" -> Quote(v.s)
      [] v.t = "number" -> DigitsOf(v.n)
      [] v.t = "boolean" -> IF v.b THEN <<"t","r","u","e">> ELSE <<"f","a","l","s","e">>
      [] v.t \in {"null", "undefined"} -> <<"n","u","l","l">>
      [] v.t = "array" -> <<"[">> \o Join([i \in 1..Len(v.a) |-> Stringify(v.a[i])]) \o <<"]">>
      [] v.t = "object" ->
            LET ms == SelectSeq(v.m, IsDefined) IN
            <<"{">> \o Join([i \in 1..Len(ms) |-> Quote(KeyChars(ms[i].k)) \o <<":">>
                                                     \o Stringify(ms[i].v)]) \o <<"}">>

(***************************************************************************)
(* The regular expressions of validation.ts                                *)
(***************************************************************************)
\* lit (lower case) occurs in s at position i, ignoring case
At(s, i, lit) ==
    /\ i >= 1
    /\ i + Len(lit) - 1 <= Len(s)
    /\ \A j \in 1..Len(lit) : ToLower(s[i + j - 1]) = lit[j]

\* /lit\s*c/i matches somewhere in s
LitSpacesThen(s, lit, c) ==
    \E i \in 1..Len(s) :
        /\ At(s, i, lit)
        /\ \E e \in (i + Len(lit))..Len(s) :
              /\ s[e] = c
              /\ \A j \in (i + Len(lit))..(e - 1) : IsSpace(s[j])

\* /<script[^>]*>.*?<\/script>/gi
MatchesScriptTag(s) ==
    \E i \in 1..Len(s) :
        /\ At(s, i, <<"<","s","c","r","i","p","t">>)
        /\ \E g \in (i + 7)..Len(s) :
              /\ s[g] = ">"
              /\ \A j \in (i + 7)..(g - 1) : s[j] # ">"
              /\ \E c \in (g + 1)..Len(s) :
                    /\ At(s, c, <<"<","/","s","c","r","i","p","t",">">>)
                    /\ \A j \in (g + 1)..(c - 1) : s[j] \notin {"\n", "\r"}

\* /on\w+\s*=/gi
MatchesEventHandler(s) ==
    \E i \in 1..Len(s) :
        /\ At(s, i, <<"o","n">>)
        /\ \E e \in (i + 3)..Len(s) :
              /\ s[e] = "="
              /\ \E w \in (i + 2)..(e - 1) :
                    /\ \A j \in (i + 2)..w : IsWord(s[j])
                    /\ \A j \in (w + 1)..(e - 1) : IsSpace(s[j])

Contains(s, lit) == \E i \in 1..Len(s) : At(s, i, lit)

\* suspiciousPatterns: some pattern tests true on the string
Suspicious(s) ==
    \/ MatchesScriptTag(s)
    \/ Contains(s, <<"j","a","v","a","s","c","r","i","p","t",":">>)
    \/ MatchesEventHandler(s)
    \/ LitSpacesThen(s, <<"e","v","a","l">>, "(")
    \/ LitSpacesThen(s, <<"e","x","p","r","e","s","s","i","o","n">>, "(")
    \/ Contains(s, <<"v","b","s","c","r","i","p","t",":">>)
    \/ Contains(s, <<"d","a","t","a",":","t","e","x","t","/","h","t","m","l">>)

\* /^([0-1]?[0-9]|2[0-3]):[0-5][0-9]$/
MatchesTime(s) ==
    \/ /\ Len(s) = 5
       /\ \/ s[1] \in {"0", "1"} /\ s[2] \in Digit
          \/ s[1] = "2" /\ s[2] \in {"0", "1", "2", "3"}
       /\ s[3] = ":"
       /\ s[4] \in {"0", "1", "2", "3", "4", "5"}
       /\ s[5] \in Digit
    \/ /\ Len(s) = 4
       /\ s[1] \in Digit
       /\ s[2] = ":"
       /\ s[3] \in {"0", "1", "2", "3", "4", "5"}
       /\ s[4] \in Digit

(***************************************************************************)
(* Dates.  The process runs in UTC and is started on StartDate at          *)
(* StartMsOfDay; the runs modelled end the same day.                       *)
(***************************************************************************)
StartDate == [y |-> 2025, m |-> 2, d |-> 13]
MsPerDay == 24 * 60 * 60 * 1000
StartMsOfDay == 14 * 60 * 60 * 1000

\* days since 1970-01-01 of a proleptic Gregorian date (a day past the end of
\* February runs over into March, as the Date constructor does)
DaysFromCivil(y, m, d) ==
    LET yy  == IF m <= 2 THEN y - 1 ELSE y
        era == yy \div 400
        yoe == yy - era * 400
        mp  == IF m > 2 THEN m - 3 ELSE m + 9
        doy == (153 * mp + 2) \div 5 + d - 1
        doe == yoe * 365 + yoe \div 4 - yoe \div 100 + doy
    IN  era * 146097 + doe - 719468

IsLeap(y) == (y % 4 = 0 /\ y % 100 # 0) \/ y % 400 = 0
DaysInMonth(y, m) ==
    IF m = 2 THEN (IF IsLeap(y) THEN 29 ELSE 28)
    ELSE IF m \in {4, 6, 9, 11} THEN 30 ELSE 31

DigitValue(c) == (CHOOSE i \in 1..10 : DigitSeq[i] = c) - 1
RECURSIVE NumberOf(_)
NumberOf(s) == IF s = <<>> THEN 0 ELSE NumberOf(SubSeq(s, 1, Len(s) - 1)) * 10 + DigitValue(s[Len(s)])

NaN == [nan |-> TRUE, day |-> 0]

\* new Date(s) for the strings of the model: a date-only ISO string YYYY-MM-DD
\* is UTC midnight of a day that exists, anything else of the model's inputs
\* does not parse.  An instant at midnight is held as its day since 1970-01-01
\* (its getTime() is day * MsPerDay).
DateParse(s) ==
    IF /\ Len(s) = 10
       /\ s[5] = "-" /\ s[8] = "-"
       /\ \A i \in {1, 2, 3, 4, 6, 7, 9, 10} : s[i] \in Digit
    THEN LET y == NumberOf(SubSeq(s, 1, 4))
             m == NumberOf(SubSeq(s, 6, 7))
             d == NumberOf(SubSeq(s, 9, 10))
         IN  IF m \in 1..12 /\ d \in 1..DaysInMonth(y, m)
             THEN [nan |-> FALSE, day |-> DaysFromCivil(y, m, d)]
             ELSE NaN
    ELSE NaN

\* new Date() when Date.now() of the model is t: the day and the time of day
EpochMs(t) ==
    [day |-> DaysFromCivil(StartDate.y, StartDate.m, StartDate.d) + (StartMsOfDay + t) \div MsPerDay,
     msOfDay |-> (StartMsOfDay + t) % MsPerDay]

(***************************************************************************)
(* validatePlanSubmission                                                  *)
(***************************************************************************)
MaxPayloadLength == 10000
MaxNameLength == 100
MaxActivities == 20
MaxActivityLength == 100
MaxCustomActivityLength == 200

Error(field, message) == [field |-> field, message |-> message]

NameErrors(data) ==
    LET v == Get(data, "name") IN
    IF Falsy(v) \/ v.t # "string"
    THEN <<Error("name", "Name is required and must be a string")>>
    ELSE IF Len(trim(v.s)) = 0
    THEN <<Error("name", "Name cannot be empty")>>
    ELSE IF Len(v.s) > MaxNameLength
    THEN <<Error("name", "Name must be less than 100 characters")>>
    ELSE IF ~All(v.s, IsNameChar)
    THEN <<Error("name", "Name contains invalid characters")>>
    ELSE <<>>

DateErrors(data, t) ==
    LET v == Get(data, "date") IN
    IF Falsy(v) \/ v.t # "string"
    THEN <<Error("date", "Date is required and must be a string")>>
    ELSE LET dateObj == DateParse(v.s) IN
         IF dateObj.nan
         THEN <<Error("date", "Date must be a valid ISO date string")>>
         ELSE LET oneYearAgo == DaysFromCivil(StartDate.y - 1, StartDate.m, StartDate.d)
                  oneYearFromNow == DaysFromCivil(StartDate.y + 1, StartDate.m, StartDate.d)
              IN  IF dateObj.day < oneYearAgo \/ dateObj.day > oneYearFromNow
                  THEN <<Error("date", "Date must be within a reasonable range (past year to next year)")>>
                  ELSE <<>>

TimeErrors(data) ==
    LET v == Get(data, "time") IN
    IF Falsy(v) \/ v.t # "string"
    THEN <<Error("time", "Time is required and must be a string")>>
    ELSE IF ~MatchesTime(v.s)
    THEN <<Error("time", "Time must be in HH:MM format")>>
    ELSE <<>>

InvalidActivity(a) ==
    \/ a.t # "string"
    \/ Len(trim(a.s)) = 0
    \/ Len(a.s) > MaxActivityLength
    \/ ~All(a.s, IsActivityChar)

ActivitiesErrors(data) ==
    LET v == Get(data, "activities") IN
    IF v.t # "array"
    THEN <<Error("activities", "Activities must be an array")>>
    ELSE IF Len(v.a) = 0
    THEN <<Error("activities", "At least one activity is required")>>
    ELSE IF Len(v.a) > MaxActivities
    THEN <<Error("activities", "Too many activities (maximum 20 allowed)")>>
    ELSE IF Len(SelectSeq(v.a, InvalidActivity)) > 0
    THEN <<Error("activities", "All activities must be valid strings (max 100 chars, alphanumeric and basic punctuation only)")>>
    ELSE <<>>

CustomActivityErrors(data) ==
    LET v == Get(data, "customActivity") IN
    IF v.t \in {"undefined", "null"} THEN <<>>
    ELSE IF v.t # "string"
    THEN <<Error("customActivity", "Custom activity must be a string")>>
    ELSE IF Len(v.s) > MaxCustomActivityLength
    THEN <<Error("customActivity", "Custom activity must be less than 200 characters")>>
    ELSE IF Len(trim(v.s)) > 0 /\ ~All(v.s, IsActivityChar)
    THEN <<Error("customActivity", "Custom activity contains invalid characters")>>
    ELSE <<>>

\* a validator that returns at the first field error
FirstFieldError(data, t) ==
    SubSeq(NameErrors(data) \o DateErrors(data, t) \o TimeErrors(data)
              \o ActivitiesErrors(data) \o CustomActivityErrors(data), 1, 1)

\* the field checks in the order of the code, each pushing onto errors
FieldErrors(data, t) ==
    NameErrors(data) \o DateErrors(data, t) \o TimeErrors(data)
        \o ActivitiesErrors(data) \o CustomActivityErrors(data)

SanitizedOrUndefined(v) == IF Falsy(v) THEN Undefined ELSE JString(sanitizeString(v.s))

\* data.x ? sanitizeString(data.x) : undefined throws a TypeError when data.x
\* is truthy and no string: input.trim is not a function
SanitizeThrows(v) == ~Falsy(v) /\ v.t # "string"

\* what the caller of validatePlanSubmission gets when sanitizeString throws
Thrown == [threw |-> TRUE, isValid |-> FALSE, errors |-> <<>>]

\* validatePlanSubmission(data) when Date.now() is t
validatePlanSubmission(data, t) ==
    IF Falsy(data) \/ data.t \notin {"object", "array"}
    THEN [threw |-> FALSE, isValid |-> FALSE,
          errors |-> <<Error("body", "Request body is required and must be an object")>>]
    ELSE LET dataString == Stringify(data) IN
    IF Suspicious(dataString)
    THEN [threw |-> FALSE, isValid |-> FALSE,
          errors |-> <<Error("body", "Request contains potentially malicious content")>>]
    ELSE IF Len(dataString) > MaxPayloadLength
    THEN [threw |-> FALSE, isValid |-> FALSE,
          errors |-> <<Error("body", "Request payload too large")>>]
    ELSE LET errors == FieldErrors(data, t) IN
    IF Len(errors) > 0
    THEN [threw |-> FALSE, isValid |-> FALSE, errors |-> errors]
    ELSE IF SanitizeThrows(Get(data, "userAgent")) \/ SanitizeThrows(Get(data, "ipAddress"))
    THEN Thrown
    ELSE [threw |-> FALSE, isValid |-> TRUE, errors |-> <<>>,
          sanitized |->
            [name |-> sanitizeString(Get(data, "name").s),
             date |-> Get(data, "date").s,
             time |-> Get(data, "time").s,
             activities |-> [i \in 1..Len(Get(data, "activities").a) |->
                                sanitizeString(Get(data, "activities").a[i].s)],
             customActivity |-> SanitizedOrUndefined(Get(data, "customActivity")),
             submittedAt |-> EpochMs(t),
             userAgent |-> SanitizedOrUndefined(Get(data, "userAgent")),
             ipAddress |-> SanitizedOrUndefined(Get(data, "ipAddress"))]]

(***************************************************************************)
(* Invocations.  Each slot runs one call at a time, either of submitPlan   *)
(* or, in the notifier-level runs, of sendPlanNotification; pc is the      *)
(* await the call is suspended at.                                         *)
(***************************************************************************)
Invocations == 1..NumInvocations
NoInvocation == [pc |-> "idle"]
\* no submission id has been generated
NoSubmissionId == <<>>

NoResult == [allowed |-> FALSE, resetTime |-> 0, remaining |-> 0]

NewInvocation(kind, method, clientIP) ==
    [pc |-> "start", kind |-> kind, method |-> method, clientIP |-> clientIP,
     globalRateLimit |-> NoResult, ipRateLimit |-> NoResult,
     \* the entry submitPlanRateLimiter.isAllowed(clientIP) left in the map
     ipEntry |-> NoEntry,
     text |-> "unread", bodyType |-> "none", validation |-> "none", errors |-> <<>>,
     submissionId |-> NoSubmissionId,
     throwsAt |-> "nowhere", attempt |-> 0, wakeAt |-> 0, emailSent |-> FALSE,
     flushStatus |-> 0,
     \* what the invocation has done so far, kept for the properties
     textCalls |-> 0, validatorCalls |-> 0, constructed |-> "no", notifierCalls |-> 0,
     sends |-> 0, outcomes |-> <<>>, delays |-> <<>>, notifier |-> "not called",
     events |-> <<>>,
     response |-> [status |-> 0]]

(***************************************************************************)
(* EmailService.sendPlanNotification                                       *)
(***************************************************************************)
\* the delay before the retry that follows failed attempt number attempt
BackoffDelay(attempt) == 2 ^ attempt * 1000

\* The statements of the loop body that can throw, and whether the try block
\* encloses them.
ThrowSites == {"generateEmailContent", "beginSend", "pollUntilDone", "status"}
InTryNotContent(site) == site \in {"beginSend", "pollUntilDone", "status"}
InTry(site) == site \in ThrowSites

\* a loop that tries once more
MoreRetries == 3 + 1
maxRetries == 3

\* the security and CORS headers every response carries
securityHeaders == "securityHeaders"

(***************************************************************************)
(* What submitPlan hands to the logger for one submission.                 *)
(***************************************************************************)
\* logger.logPlanSubmission(submissionId, ...)
logPlanSubmission(submissionId) ==
    [level |-> "info", message |-> "Plan submission received", id |-> submissionId]

\* logger.logEmailEvent(event, { planSubmissionId, ... })
logEmailEvent(event, planSubmissionId) ==
    [level |-> IF event = "failure" THEN "error" ELSE "info",
     message |-> CASE event = "attempt" -> "Email notification attempt"
                   [] event = "success" -> "Email notification success"
                   [] OTHER -> "Email notification failure",
     id |-> planSubmissionId]

\* a catch block that logs nothing
EmailOutcomeEventsNoCatch(outcome, planSubmissionId) ==
    IF outcome = "threw" THEN <<>>
    ELSE <<logEmailEvent(IF outcome = "true" THEN "success" ELSE "failure", planSubmissionId)>>

\* the event logged once the notification is over: sendPlanNotification
\* returned true or false, or it or the constructor threw
EmailOutcomeEvents(outcome, planSubmissionId) ==
    <<logEmailEvent(IF outcome = "true" THEN "success" ELSE "failure", planSubmissionId)>>

\* The call returns (returned is a boolean) or throws to its caller; the
\* caller goes on: a direct caller has its answer, submitPlan logs the outcome
\* and the request and awaits logger.flush().
\* a gateway that calls the notifier once more when it returns false
SettledCallingAgain(r, outcome) ==
    IF r.kind = "sendPlanNotification"
    THEN [r EXCEPT !.pc = "done", !.notifier = outcome, !.response = [outcome |-> outcome]]
    ELSE IF outcome = "false" /\ r.notifierCalls < 2
    THEN [r EXCEPT !.pc = "sleep", !.wakeAt = 0, !.attempt = 0, !.notifierCalls = @ + 1]
    ELSE [r EXCEPT !.pc = "flush", !.notifier = outcome,
                   !.emailSent = (outcome = "true"), !.flushStatus = 200,
                   !.events = @ \o EmailOutcomeEvents(outcome, r.submissionId)]

\* sendPlanNotification returns (or throws) and its caller goes on.
Settled(r, outcome) ==
    IF r.kind = "sendPlanNotification"
    THEN [r EXCEPT !.pc = "done", !.notifier = outcome, !.response = [outcome |-> outcome]]
    ELSE [r EXCEPT !.pc = "flush", !.notifier = outcome,
                   !.emailSent = (outcome = "true"), !.flushStatus = 200,
                   !.events = @ \o EmailOutcomeEvents(outcome, r.submissionId)]

\* The catch block of the retry loop, entered at time t for a throw at site.
Caught(r, site, t) ==
    LET f == [r EXCEPT !.outcomes = Append(@, "failed")] IN
    IF ~InTry(site) THEN Settled(f, "threw")
    ELSE IF f.attempt = maxRetries THEN Settled(f, "false")
    ELSE [f EXCEPT !.pc = "sleep",
                   !.wakeAt = t + BackoffDelay(f.attempt),
                   !.delays = Append(@, BackoffDelay(f.attempt))]

\* One turn of the while loop up to its first await: attempt++, the message
\* is built, beginSend is called.
Attempt(r, t) ==
    IF r.attempt < maxRetries
    THEN LET a == [r EXCEPT !.attempt = @ + 1] IN
         IF r.throwsAt = "generateEmailContent"
         THEN Caught(a, "generateEmailContent", t)
         ELSE [a EXCEPT !.pc = "beginSend", !.sends = @ + 1]
    ELSE Settled(r, "false")

\* sendPlanNotification(planSubmission, context) is called.
Notify(r, t) == Attempt([r EXCEPT !.notifierCalls = @ + 1, !.attempt = 0], t)

\* A direct call of sendPlanNotification; builds tells whether
\* generateEmailContent can build the message from the submission passed.
CallSendPlanNotification(i, builds) ==
    /\ inv[i].pc \in {"idle", "done"}
    /\ inv' = [inv EXCEPT ![i] =
                 Notify([NewInvocation("sendPlanNotification", "none", "none")
                            EXCEPT !.throwsAt = IF builds THEN "nowhere"
                                                ELSE "generateEmailContent"], now)]
    /\ UNCHANGED <<now, config, requests, last, window, posts>>

\* await this.client.beginSend(emailMessage) settles.
BeginSendSettles(i, resolves) ==
    /\ inv[i].pc = "beginSend"
    /\ inv' = [inv EXCEPT ![i] = IF resolves THEN [@ EXCEPT !.pc = "pollUntilDone"]
                                 ELSE Caught(@, "beginSend", now)]
    /\ UNCHANGED <<now, config, requests, last, window, posts>>

\* await poller.pollUntilDone() settles: it rejects, or resolves with a status.
PollSettles(i, result) ==
    /\ inv[i].pc = "pollUntilDone"
    /\ inv' = [inv EXCEPT ![i] =
                 IF result = "Succeeded"
                 THEN Settled([@ EXCEPT !.outcomes = Append(@, "succeeded")], "true")
                 ELSE IF result = "rejects" THEN Caught(@, "pollUntilDone", now)
                 ELSE Caught(@, "status", now)]
    /\ UNCHANGED <<now, config, requests, last, window, posts>>

PollResults == {"Succeeded", "Failed", "rejects"}

\* await this.sleep(delay) ends: the timer fires no earlier than asked.
SleepEnds(i) ==
    /\ inv[i].pc = "sleep"
    /\ now >= inv[i].wakeAt
    /\ inv' = [inv EXCEPT ![i] = Attempt(@, now)]
    /\ UNCHANGED <<now, config, requests, last, window, posts>>

(***************************************************************************)
(* submitPlan                                                              *)
(***************************************************************************)
Methods == {"OPTIONS", "GET", "POST"}

\* request.headers: "" is a header that is not sent
RequestHeaders ==
    { h \in [xForwardedFor : {"", "203.0.113.1"}, xRealIp : {"", "203.0.113.1"},
             xClientIp : {"", "203.0.113.1"}] :
        Cardinality({f \in {"xForwardedFor", "xRealIp", "xClientIp"} : h[f] # ""}) <= 1 }

\* request.headers.get('user-agent')
UserAgents == {JNull, JString(<<"M","o","z","i","l","l","a","/","5",".","0">>)}

IdentifierChars(id) ==
    IF id = "unknown" THEN <<"u","n","k","n","o","w","n">>
    ELSE <<"2","0","3",".","0",".","1","1","3",".","1">>

\* what await request.text() and JSON.parse make of the body sent
RejectedRead == [kind |-> "rejects", value |-> Undefined]
MalformedJson == [kind |-> "malformed", value |-> Undefined]
Parsed(v) == [kind |-> "json", value |-> v]

ValidPlan ==
    JObject(<<Member("name", JString(<<"J","o","h","n"," ","D","o","e">>)),
              Member("date", JString(<<"2","0","2","5","-","0","2","-","1","4">>)),
              Member("time", JString(<<"1","9",":","0","0">>)),
              Member("activities", JArray(<<JString(<<"D","i","n","n","e","r">>)>>))>>)

InvalidPlan ==
    JObject(<<Member("name", JString(<<>>)),
              Member("date", JString(<<"n","o","t","-","a","-","d","a","t","e">>)),
              Member("time", JString(<<"2","5",":","9","9">>)),
              Member("activities", JArray(<<>>))>>)

RequestBodies ==
    {RejectedRead, MalformedJson, Parsed(JNull), Parsed(JNumber(5)),
     Parsed(ValidPlan), Parsed(InvalidPlan)}

\* Math.ceil(a / b) for b > 0
CeilDiv(a, b) == 0 - ((0 - a) \div b)

\* a gate that forgets the 405 and lets every method but OPTIONS through
MethodGateNo405(method) == IF method = "OPTIONS" THEN "preflight" ELSE "post"

\* the two method tests at the head of submitPlan
MethodGate(method) ==
    IF method = "OPTIONS" THEN "preflight"
    ELSE IF method # "POST" THEN "notAllowed"
    ELSE "post"

\* the client IP for rate limiting
ClientIP(h) ==
    IF h.xForwardedFor # "" THEN h.xForwardedFor
    ELSE IF h.xRealIp # "" THEN h.xRealIp
    ELSE IF h.xClientIp # "" THEN h.xClientIp
    ELSE "unknown"

\* !globalRateLimit.allowed || !ipRateLimit.allowed
Denied(globalRateLimit, ipRateLimit) == ~globalRateLimit.allowed \/ ~ipRateLimit.allowed

RateLimitInfo(globalRateLimit) == IF ~globalRateLimit.allowed THEN "global" ELSE "per-ip"

\* a reset time always taken from the per-IP result
ResetTimeOfIp(globalRateLimit, ipRateLimit) == ipRateLimit.resetTime

\* const resetTime = !globalRateLimit.allowed ? globalRateLimit.resetTime : ipRateLimit.resetTime
ResetTimeOf(globalRateLimit, ipRateLimit) ==
    IF ~globalRateLimit.allowed THEN globalRateLimit.resetTime ELSE ipRateLimit.resetTime

\* Math.ceil(((resetTime || Date.now()) - Date.now()) / 1000), both Date.now() = t
RetryAfter(resetTime, t) == CeilDiv((IF resetTime # 0 THEN resetTime ELSE t) - t, 1000)

Response429(globalRateLimit, ipRateLimit, tHeader, tBody) ==
    LET resetTime == ResetTimeOf(globalRateLimit, ipRateLimit) IN
    [status |-> 429, headers |-> securityHeaders,
     RetryAfter |-> RetryAfter(resetTime, tHeader),
     XRateLimitLimit |-> IF RateLimitInfo(globalRateLimit) = "global" THEN 100 ELSE 10,
     XRateLimitRemaining |-> 0,
     XRateLimitReset |-> CeilDiv(IF resetTime # 0 THEN resetTime ELSE tHeader, 1000),
     body |-> [success |-> FALSE, error |-> "Rate limit exceeded",
               message |-> "Too many requests. Please try again later.",
               retryAfter |-> RetryAfter(resetTime, tBody)]]

\* a handler that asks the per-IP limiter only when the global one allows
ConsultIpIfGlobalAllows(globalRateLimit, cfg, entry, t) ==
    IF globalRateLimit.allowed THEN isAllowed(cfg, entry, t)
    ELSE [entry |-> entry,
          result |-> [allowed |-> TRUE, resetTime |-> entry.resetTime, remaining |-> 0]]

\* const ipRateLimit = submitPlanRateLimiter.isAllowed(clientIP), whatever
\* globalRateLimit says
ConsultIp(globalRateLimit, cfg, entry, t) == isAllowed(cfg, entry, t)

\* the identifiers that hold an entry of the per-IP limiter
Clients == {k \in Identifiers : requests["submitPlanRateLimiter"][k] # NoEntry}

\* submitPlan(request, context) up to its first await or its return: the
\* handler itself.
SubmitPlanRuns(i, method, h) ==
    /\ inv[i].pc \in {"idle", "done"}
    /\ LET r == NewInvocation("submitPlan", method, ClientIP(h)) IN
       CASE MethodGate(method) = "preflight" ->
              /\ inv' = [inv EXCEPT ![i] =
                           [r EXCEPT !.pc = "done",
                                     !.response = [status |-> 200, headers |-> securityHeaders,
                                                   body |-> "none"]]]
              /\ UNCHANGED <<now, requests, posts>>
         [] MethodGate(method) = "notAllowed" ->
              /\ inv' = [inv EXCEPT ![i] =
                           [r EXCEPT !.pc = "done",
                                     !.response = [status |-> 405, headers |-> securityHeaders,
                                                   body |-> [success |-> FALSE,
                                                             error |-> "Method not allowed",
                                                             message |-> "Only POST requests are supported"]]]]
              /\ UNCHANGED <<now, requests, posts>>
         [] OTHER ->
              /\ posts < MaxPosts
              /\ posts' = posts + 1
              /\ \E tGlobal \in LaterReads(now) : \E tIp \in LaterReads(tGlobal) :
                   LET g == isAllowed(config["globalRateLimiter"],
                                      requests["globalRateLimiter"]["global"], tGlobal)
                       p == ConsultIp(g.result, config["submitPlanRateLimiter"],
                                      requests["submitPlanRateLimiter"][r.clientIP], tIp)
                   IN  /\ requests' = [requests EXCEPT
                                          !["globalRateLimiter"]["global"] = g.entry,
                                          !["submitPlanRateLimiter"][r.clientIP] = p.entry]
                       /\ IF Denied(g.result, p.result)
                          THEN \E tHeader \in LaterReads(tIp) : \E tBody \in LaterReads(tHeader) :
                                 /\ inv' = [inv EXCEPT ![i] =
                                              [r EXCEPT !.pc = "done",
                                                        !.globalRateLimit = g.result,
                                                        !.ipRateLimit = p.result,
                                                        !.ipEntry = p.entry,
                                                        !.response = Response429(g.result, p.result,
                                                                                 tHeader, tBody)]]
                                 /\ now' = tBody
                          ELSE /\ inv' = [inv EXCEPT ![i] =
                                            [r EXCEPT !.pc = "text",
                                                      !.globalRateLimit = g.result,
                                                      !.ipRateLimit = p.result,
                                                      !.ipEntry = p.entry]]
                               /\ now' = tIp
    /\ UNCHANGED <<config, last>>

\* submitPlan(request, context) up to its first await or its return.
\* the request is one the run has room for
InBounds(method, h) ==
    MethodGate(method) = "post" => Cardinality(Clients \cup {ClientIP(h)}) <= MaxClients

SubmitPlanStarts(i, method, h) ==
    /\ InBounds(method, h)
    /\ SubmitPlanRuns(i, method, h)
    /\ UNCHANGED window

\* primitives and null take no property: requestBody.userAgent = ... throws
TakesProperties(v) == v.t \in {"object", "array"}

\* a try block that encloses the read alone
ParseThrowsReadOnly(body) == body.kind = "rejects"

\* the inner try block: request.text() rejects or JSON.parse throws
ParseThrows(body) == body.kind \in {"rejects", "malformed"}

\* a response that reports every email as sent
Response200AlwaysSent(r, t) ==
    [status |-> 200, headers |-> securityHeaders,
     XRateLimitLimit |-> 10,
     XRateLimitRemaining |-> r.ipRateLimit.remaining,
     XRateLimitReset |-> CeilDiv(IF r.ipRateLimit.resetTime # 0 THEN r.ipRateLimit.resetTime ELSE t,
                                 1000),
     body |-> [success |-> TRUE, message |-> "Plan submission received successfully",
               submissionId |-> r.submissionId, emailSent |-> TRUE]]

\* a response whose headers read the entry as it is when the response is built
Response200CurrentEntry(r, t) ==
    [status |-> 200, headers |-> securityHeaders,
     XRateLimitLimit |-> 10,
     XRateLimitRemaining |-> SubmitPlanMaxRequests
                               - requests["submitPlanRateLimiter"][r.clientIP].count,
     XRateLimitReset |-> CeilDiv(requests["submitPlanRateLimiter"][r.clientIP].resetTime, 1000),
     body |-> [success |-> TRUE, message |-> "Plan submission received successfully",
               submissionId |-> r.submissionId, emailSent |-> r.emailSent]]

Response200(r, t) ==
    [status |-> 200, headers |-> securityHeaders,
     XRateLimitLimit |-> 10,
     XRateLimitRemaining |-> r.ipRateLimit.remaining,
     XRateLimitReset |-> CeilDiv(IF r.ipRateLimit.resetTime # 0 THEN r.ipRateLimit.resetTime ELSE t,
                                 1000),
     body |-> [success |-> TRUE, message |-> "Plan submission received successfully",
               submissionId |-> r.submissionId, emailSent |-> r.emailSent]]

\* a 500 that passes the message of the exception on
Response500WithMessage ==
    [status |-> 500, headers |-> securityHeaders,
     body |-> [error |-> "Internal server error",
               message |-> "Cannot set properties of null (setting 'userAgent')"]]

Response500 ==
    [status |-> 500, headers |-> securityHeaders,
     body |-> [error |-> "Internal server error",
               message |-> "An unexpected error occurred while processing your request"]]

\* a 400 that tells the caller the first error only
Response400FirstError(errors) ==
    [status |-> 400, headers |-> securityHeaders,
     body |-> [success |-> FALSE, error |-> "Validation failed",
               message |-> "Please check your input data",
               details |-> SubSeq(errors, 1, 1)]]

\* the answer to a body that fails validation
Response400(errors) ==
    [status |-> 400, headers |-> securityHeaders,
     body |-> [success |-> FALSE, error |-> "Validation failed",
               message |-> "Please check your input data",
               details |-> errors]]

(***************************************************************************)
(* generateSubmissionId.  A value of Math.random() is given by the digits  *)
(* that follow "0." in its base-36 form; 0 has none.                       *)
(***************************************************************************)
Base36Seq == DigitSeq \o LowerSeq

\* Math.random(): 0, 0.5, and a value of twelve base-36 digits
TypicalRandom == <<4, 15, 27, 0, 33, 9, 21, 2, 30, 11, 7, 1>>
Randoms == {<<>>, <<18>>, TypicalRandom}

\* x.toString(36) for 0 <= x < 1
ToString36(random) ==
    IF random = <<>> THEN <<"0">>
    ELSE <<"0", ".">> \o [j \in 1..Len(random) |-> Base36Seq[random[j] + 1]]

\* s.substr(start, length)
substr(s, start, length) ==
    SubSeq(s, start + 1, IF Len(s) < start + length THEN Len(s) ELSE start + length)

\* generateSubmissionId with Date.now() = t and Math.random() = random
generateSubmissionId(t, random) ==
    <<"s","u","b","_">> \o DigitsOf(t) \o <<"_">> \o substr(ToString36(random), 2, 9)

\* await request.text() settles and the handler runs on to its next await or
\* its return: JSON.parse, the metadata, the validation, the submission id and
\* the first attempt of the notification.  connected tells whether
\* COMMUNICATION_SERVICES_CONNECTION_STRING is set, random is what
\* Math.random() returns.
TextSettles(i, body, userAgent, connected, random) ==
    /\ inv[i].pc = "text"
    /\ LET r == [inv[i] EXCEPT !.textCalls = @ + 1, !.text = body.kind] IN
       inv' = [inv EXCEPT ![i] =
         IF ParseThrows(body)
         THEN [r EXCEPT !.pc = "done",
                        !.response = [status |-> 400, headers |-> securityHeaders,
                                      body |-> [success |-> FALSE, error |-> "Invalid JSON",
                                                message |-> "Request body must be valid JSON"]]]
         ELSE IF ~TakesProperties(body.value)
         THEN [r EXCEPT !.pc = "flush", !.flushStatus = 500, !.bodyType = body.value.t]
         ELSE LET requestBody == Set(Set(body.value, "userAgent", userAgent),
                                     "ipAddress", JString(IdentifierChars(r.clientIP)))
                  validation == validatePlanSubmission(requestBody, now)
                  v == [r EXCEPT !.validatorCalls = @ + 1,
                                 !.bodyType = body.value.t,
                                 !.validation = IF validation.threw THEN "threw"
                                                ELSE IF validation.isValid THEN "valid"
                                                ELSE "invalid",
                                 !.errors = validation.errors]
              IN
              IF validation.threw
              THEN [v EXCEPT !.pc = "flush", !.flushStatus = 500]
              ELSE IF ~validation.isValid
              THEN [v EXCEPT !.pc = "done", !.response = Response400(validation.errors)]
              ELSE LET submissionId == generateSubmissionId(now, random)
                       s == [v EXCEPT !.submissionId = submissionId,
                                      !.events = Append(@, logPlanSubmission(submissionId))] IN
                   IF ~connected
                   THEN [s EXCEPT !.pc = "flush", !.constructed = "threw",
                                  !.emailSent = FALSE, !.flushStatus = 200,
                                  !.events = @ \o EmailOutcomeEvents("threw", s.submissionId)]
                   ELSE Notify([s EXCEPT !.constructed = "yes",
                                         !.events = Append(@, logEmailEvent("attempt",
                                                                            s.submissionId))],
                               now)]
    /\ UNCHANGED <<now, config, requests, last, window, posts>>

\* await logger.flush() settles and submitPlan returns.
FlushSettles(i) ==
    /\ inv[i].pc = "flush"
    /\ inv' = [inv EXCEPT ![i] =
                 [@ EXCEPT !.pc = "done",
                           !.response = IF inv[i].flushStatus = 200 THEN Response200(inv[i], now)
                                        ELSE Response500]]
    /\ UNCHANGED <<now, config, requests, last, window, posts>>

\* Time passes.
Tick ==
    /\ \E t \in Instants : t > now /\ now' = t
    /\ UNCHANGED <<config, requests, last, window, inv, posts>>

\* The setInterval callback of a limiter; the first one is due 5 minutes after
\* construction.
Cleanup(l) ==
    /\ now >= CleanupIntervalMs
    /\ requests' = [requests EXCEPT ![l] = cleanup(@, now)]
    /\ requests' # requests
    /\ UNCHANGED <<now, config, last, window, inv, posts>>

\* The key each instance is called with in the limiter-level runs.
DirectKeys(l) == IF l = "globalRateLimiter" THEN {"global"} ELSE {"203.0.113.1"}

NoCall == [lim |-> "none"]
NoWindow == [opened |-> -1, seen |-> 0]

\* The window of the claims, tracked from the calls alone: a call at time t
\* opens a window when none was opened before or the last one opened has
\* lasted windowMs; seen counts the calls in it (up to maxRequests + 1).
Observe(w, cfg, t) ==
    IF w = NoWindow \/ t >= w.opened + cfg.windowMs
    THEN [opened |-> t, seen |-> 1]
    ELSE [w EXCEPT !.seen = IF @ > cfg.maxRequests THEN @ ELSE @ + 1]

\* A direct call limiter.isAllowed(k).
CallIsAllowed(l, k) ==
    /\ LET r == isAllowed(config[l], requests[l][k], now) IN
        /\ requests' = [requests EXCEPT ![l][k] = r.entry]
        /\ last' = [lim |-> l, key |-> k, at |-> now,
                    before |-> requests[l][k], after |-> r.entry, result |-> r.result]
    /\ window' = [window EXCEPT ![l][k] = Observe(@, config[l], now)]
    /\ UNCHANGED <<now, config, inv, posts>>

\* Limiter-level runs: both instances built with maxRequests = n.
InitLimiter ==
    /\ now = 0
    /\ \E n \in 1..MaxN :
         config = [l \in Limiters |-> [windowMs |-> WindowOf(l), maxRequests |-> n]]
    /\ requests = [l \in Limiters |-> [k \in Identifiers |-> NoEntry]]
    /\ last = NoCall
    /\ window = [l \in Limiters |-> [k \in Identifiers |-> NoWindow]]
    /\ inv = [i \in Invocations |-> NoInvocation]
    /\ posts = 0

NextLimiter ==
    \/ Tick
    \/ \E l \in Limiters : Cleanup(l)
    \/ \E l \in Limiters : \E k \in DirectKeys(l) : CallIsAllowed(l, k)

SpecLimiter == InitLimiter /\ [][NextLimiter]_vars

\* C1: with maxRequests = N and a fixed key, of the calls made while now <
\* resetTime of the window the first call opened exactly the first N are
\* allowed and every later one is denied; a call at now >= resetTime (or the
\* first call ever) is allowed and opens a fresh window: count = 1, resetTime
\* = now + windowMs, remaining = N - 1.
C1_FirstNAllowedThenFreshWindow ==
    last # NoCall =>
        LET cfg == config[last.lim]
            w   == window[last.lim][last.key]
        IN  /\ last.result.allowed <=> w.seen <= cfg.maxRequests
            /\ w.opened = last.at /\ w.seen = 1 =>
                  /\ last.result = [allowed |-> TRUE, resetTime |-> last.at + cfg.windowMs,
                                    remaining |-> cfg.maxRequests - 1]
                  /\ last.after = [count |-> 1, resetTime |-> last.at + cfg.windowMs]

\* C1 witness: a window that was used up (N calls counted) has run out and the
\* next call has opened a fresh one.
C1_Witness ==
    /\ last # NoCall
    /\ last.before.count = config[last.lim].maxRequests
    /\ last.at >= last.before.resetTime
    /\ last.result.allowed
    /\ last.after.count = 1

\* C2: a call inside an active window (an entry exists and now < its
\* resetTime) is denied with remaining = 0 and the entry's resetTime, leaving
\* the entry as it was, when count >= maxRequests; otherwise it adds exactly 1
\* to count, keeps resetTime and returns allowed with remaining = maxRequests
\* - (new count).
C2_ActiveWindowStep ==
    (last # NoCall /\ last.before # NoEntry /\ last.at < last.before.resetTime) =>
        LET cfg == config[last.lim] IN
        IF last.before.count >= cfg.maxRequests
        THEN /\ last.result = [allowed |-> FALSE, resetTime |-> last.before.resetTime,
                               remaining |-> 0]
             /\ last.after = last.before
        ELSE /\ last.after = [count |-> last.before.count + 1,
                              resetTime |-> last.before.resetTime]
             /\ last.result = [allowed |-> TRUE, resetTime |-> last.before.resetTime,
                               remaining |-> cfg.maxRequests - last.after.count]

\* C2 witness: a call denied inside an active window right after one that was
\* counted in it.
C2_Witness ==
    /\ last # NoCall
    /\ last.before # NoEntry
    /\ last.at < last.before.resetTime
    /\ last.before.count = config[last.lim].maxRequests
    /\ config[last.lim].maxRequests > 1
    /\ ~last.result.allowed


(***************************************************************************)
(* Twin runs: two RateLimiter instances of one configuration receive the   *)
(* same calls at the same instants; the sweep of the first may run between *)
(* any two calls, the sweep of the second never runs.                      *)
(***************************************************************************)
Swept == "globalRateLimiter"
Unswept == "submitPlanRateLimiter"
TwinKeys == {"unknown", "203.0.113.1"}

\* isAllowed(k) on both instances, one after the other
CallTwins(k) ==
    /\ LET r == isAllowed(config[Swept], requests[Swept][k], now)
           u == isAllowed(config[Unswept], requests[Unswept][k], now)
       IN  /\ requests' = [requests EXCEPT ![Swept][k] = r.entry, ![Unswept][k] = u.entry]
           /\ last' = [lim |-> Swept, key |-> k, at |-> now,
                       before |-> requests[Swept][k], after |-> r.entry,
                       result |-> r.result, twin |-> u.result]
    /\ UNCHANGED <<now, config, window, inv, posts>>

\* cleanup() of the first instance, at any moment
Sweep ==
    /\ requests' = [requests EXCEPT ![Swept] = cleanup(@, now)]
    /\ last' = [lim |-> "cleanup", at |-> now,
                before |-> requests[Swept], after |-> requests'[Swept]]
    /\ UNCHANGED <<now, config, window, inv, posts>>

InitTwins ==
    /\ now = 0
    /\ \E n \in 1..MaxN :
         config = [l \in Limiters |-> [windowMs |-> GlobalWindowMs, maxRequests |-> n]]
    /\ requests = [l \in Limiters |-> [k \in Identifiers |-> NoEntry]]
    /\ last = NoCall
    /\ window = [l \in Limiters |-> [k \in Identifiers |-> NoWindow]]
    /\ inv = [i \in Invocations |-> NoInvocation]
    /\ posts = 0

NextTwins ==
    \/ Tick
    \/ Sweep
    \/ \E k \in TwinKeys : CallTwins(k)

SpecTwins == InitTwins /\ [][NextTwins]_vars

(***************************************************************************)
(* Validator-level runs: one direct call of validatePlanSubmission or of   *)
(* sanitizeString on an input drawn from the sets below.                   *)
(***************************************************************************)
\* a character outside ASCII: the euro sign, one UTF-16 code unit and three
\* bytes of UTF-8
Euro == "U+20AC"

\* the values a caller may give each field
NameValues ==
    {Undefined, JString(<<>>), JString(<<"J", "o", "h", "n", " ", "D", "o", "e">>), JString(<<"J", "@", "n", "e">>),
     JString(Rep("a", MaxNameLength + 1))}
DateValues ==
    {Undefined, JString(<<"2", "0", "2", "5", "-", "0", "2", "-", "1", "4">>), JString(<<"n", "o", "t", "-", "a", "-", "d", "a", "t", "e">>),
     JString(<<"2", "0", "2", "3", "-", "0", "2", "-", "1", "4">>)}
TimeValues ==
    {Undefined, JString(<<"1", "9", ":", "0", "0">>), JString(<<"9", ":", "3", "0">>), JString(<<"2", "5", ":", "9", "9">>),
     JString(<<"1", "9", ":", "0">>)}
ActivitiesValues ==
    {Undefined, JArray(<<>>), JArray(<<JString(<<"D", "i", "n", "n", "e", "r">>)>>),
     JArray(<<JString(<<"D", "i", "n", "n", "e", "r">>), JNumber(5)>>),
     JArray(<<JString(<<"D", "i", "n", "n", "e", "r">>), JString(<<"<", "b", ">">>), JString(<<" ">>)>>),
     JArray(Rep(JString(<<"D", "i", "n", "n", "e", "r">>), MaxActivities + 1))}
CustomActivityValues ==
    {Undefined, JNull, JNumber(5), JString(<<" ", " ">>), JString(<<"P", "i", "c", "n", "i", "c", " ", "&", " ", "w", "i", "n", "e", "!">>),
     JString(<<"<", "i", ">">>), JString(Rep("a", MaxCustomActivityLength + 1))}

\* an object of the five fields, the undefined ones left out
Plan(name, date, time, activities, customActivity) ==
    JObject(SelectSeq(<<Member("name", name), Member("date", date), Member("time", time),
                        Member("activities", activities),
                        Member("customActivity", customActivity)>>, IsDefined))
\* the same object with one more member
With(data, key, value) == [data EXCEPT !.m = Append(@, Member(key, value))]

GridPayloads ==
    { Plan(n, d, t, a, c) : n \in NameValues, d \in DateValues, t \in TimeValues,
                            a \in ActivitiesValues, c \in CustomActivityValues }

\* strings that hold a match of one of the suspicious patterns
ForbiddenValues ==
    {JString(<<"<", "s", "c", "r", "i", "p", "t", ">", "a", "l", "e", "r", "t", "(", "1", ")", "<", "/", "s", "c", "r", "i", "p", "t", ">">>),
     JString(<<"<", "S", "C", "R", "I", "P", "T", " ", "s", "r", "c", "=", "x", ">", "a", "<", "/", "S", "c", "r", "i", "p", "t", ">">>),
     JString(<<"J", "a", "v", "a", "S", "c", "r", "i", "p", "t", ":", "a", "l", "e", "r", "t", "(", "1", ")">>),
     JString(<<"a", " ", "o", "n", "C", "l", "i", "c", "k", " ", "=", " ", "b">>),
     JString(<<"E", "v", "a", "l", " ", "(", "x", ")">>),
     JString(<<"e", "x", "p", "r", "e", "s", "s", "i", "o", "n", "(", "x", ")">>),
     JString(<<"V", "B", "S", "c", "r", "i", "p", "t", ":", "x">>),
     JString(<<"d", "a", "t", "a", ":", "t", "e", "x", "t", "/", "H", "T", "M", "L", ",", "x">>),
     JString(<<"<", "s", "c", "r", "i", "p", "t", ">", "<", "/", "s", "c", "r", "i", "p", "t", ">">> \o Rep("a", MaxPayloadLength))}

\* values that take the serialization past 10 000 characters, and one that
\* takes it past 10 000 bytes in fewer characters
LongValues ==
    {JString(Rep("a", MaxPayloadLength)), JString(Rep(Euro, MaxPayloadLength \div 3 + 1))}

\* what userAgent or ipAddress may be in a direct call
MetadataValues == {JString(<<"M", "o", "z", "i", "l", "l", "a", "/", "5", ".", "0">>), JNumber(5), JBoolean(TRUE), JArray(<<>>)}

BasePlans == {ValidPlan, InvalidPlan}

ValidatorInputs ==
    {Undefined, JNull, JNumber(0), JNumber(5), JString(<<>>), JString(<<"p", "l", "a", "n">>),
     JBoolean(FALSE), JBoolean(TRUE), JArray(<<>>)}
      \cup GridPayloads
      \cup { With(p, k, v) : p \in BasePlans, k \in {"notes", "customActivity", "userAgent"},
                             v \in ForbiddenValues }
      \cup { With(p, "notes", v) : p \in BasePlans, v \in LongValues }
      \cup { With(p, k, v) : p \in BasePlans, k \in {"userAgent", "ipAddress"},
                             v \in MetadataValues }

\* the strings sanitizeString is called on
MaxLen == 3
SanitizerAlphabet == {"a", " ", "\t", "<", "@"}
SanitizerInputs == UNION { [1..n -> SanitizerAlphabet] : n \in 0..MaxLen }

\* const result = validatePlanSubmission(data)
ValidatePlanSubmissionReturns(i) ==
    /\ inv[i].pc = "called" /\ inv[i].kind = "validatePlanSubmission"
    /\ inv' = [inv EXCEPT ![i] =
                 [pc |-> "done", kind |-> "validatePlanSubmission", data |-> inv[i].data,
                  result |-> validatePlanSubmission(inv[i].data, now)]]
    /\ UNCHANGED <<now, config, requests, last, window, posts>>

\* const output = sanitizeString(input)
SanitizeStringReturns(i) ==
    /\ inv[i].pc = "called" /\ inv[i].kind = "sanitizeString"
    /\ inv' = [inv EXCEPT ![i] =
                 [pc |-> "done", kind |-> "sanitizeString", input |-> inv[i].input,
                  output |-> sanitizeString(inv[i].input)]]
    /\ UNCHANGED <<now, config, requests, last, window, posts>>

InitValidator ==
    /\ now = 0
    /\ config = ModuleConfig
    /\ requests = [l \in Limiters |-> [k \in Identifiers |-> NoEntry]]
    /\ last = NoCall
    /\ window = [l \in Limiters |-> [k \in Identifiers |-> NoWindow]]
    /\ posts = 0
    /\ \/ \E data \in ValidatorInputs :
             inv = [i \in Invocations |->
                      IF i = 1 THEN [pc |-> "called", kind |-> "validatePlanSubmission",
                                     data |-> data]
                      ELSE NoInvocation]
       \/ \E input \in SanitizerInputs :
             inv = [i \in Invocations |->
                      IF i = 1 THEN [pc |-> "called", kind |-> "sanitizeString",
                                     input |-> input]
                      ELSE NoInvocation]

NextValidator ==
    \/ \E i \in Invocations : ValidatePlanSubmissionReturns(i)
    \/ \E i \in Invocations : SanitizeStringReturns(i)

SpecValidator == InitValidator /\ [][NextValidator]_vars

(***************************************************************************)
(* Notifier-level runs: direct calls of sendPlanNotification.              *)
(***************************************************************************)
InitNotifier ==
    /\ now = 0
    /\ config = ModuleConfig
    /\ requests = [l \in Limiters |-> [k \in Identifiers |-> NoEntry]]
    /\ last = NoCall
    /\ window = [l \in Limiters |-> [k \in Identifiers |-> NoWindow]]
    /\ inv = [i \in Invocations |-> NoInvocation]
    /\ posts = 0

NextNotifier ==
    \/ Tick
    \/ \E i \in Invocations, builds \in BOOLEAN : CallSendPlanNotification(i, builds)
    \/ \E i \in Invocations, resolves \in BOOLEAN : BeginSendSettles(i, resolves)
    \/ \E i \in Invocations, result \in PollResults : PollSettles(i, result)
    \/ \E i \in Invocations : SleepEnds(i)

SpecNotifier == InitNotifier /\ [][NextNotifier]_vars

(***************************************************************************)
(* The gateway.  It starts cold, or warm: other clients, not modelled      *)
(* further, have used all but WarmHeadroom of the global budget of the     *)
(* minute that began at time 0.                                            *)
(***************************************************************************)
WarmGlobalEntry == [count |-> GlobalMaxRequests - WarmHeadroom, resetTime |-> GlobalWindowMs]

Init ==
    /\ now = 0
    /\ config = ModuleConfig
    /\ \E g \in {NoEntry, WarmGlobalEntry} :
         requests = [l \in Limiters |-> [k \in Identifiers |->
                        IF l = "globalRateLimiter" /\ k = "global" THEN g ELSE NoEntry]]
    /\ last = NoCall
    /\ window = [l \in Limiters |-> [k \in Identifiers |-> NoWindow]]
    /\ inv = [i \in Invocations |-> NoInvocation]
    /\ posts = 0

Next ==
    \/ Tick
    \/ \E l \in Limiters : Cleanup(l)
    \/ \E i \in Invocations, method \in Methods, h \in RequestHeaders : SubmitPlanStarts(i, method, h)
    \/ \E i \in Invocations, body \in RequestBodies, userAgent \in UserAgents, connected \in BOOLEAN :
          TextSettles(i, body, userAgent, connected, TypicalRandom)
    \/ \E i \in Invocations, resolves \in BOOLEAN : BeginSendSettles(i, resolves)
    \/ \E i \in Invocations, result \in PollResults : PollSettles(i, result)
    \/ \E i \in Invocations : SleepEnds(i)
    \/ \E i \in Invocations : FlushSettles(i)

Spec == Init /\ [][Next]_vars


(***************************************************************************)
(* Concurrent runs of the gateway: POSTs of one client, each suspended at  *)
(* its awaits while the others run.  The event loop runs every stretch of  *)
(* code between two awaits to its end before another callback starts, so   *)
(* the actions are those of the gateway; only the arrivals are narrowed.   *)
(* At the start the client has just made all but ClientHeadroom of the     *)
(* requests its window allows, and all of them have been answered.         *)
(***************************************************************************)
MaxInFlight == 4        \* POSTs of the client in flight at once
MaxNotifying == 2       \* of which this many carry a valid plan and reach the notifier
ClientHeadroom == 2     \* slots the client has left in its current window at the start

InFlight == 1..MaxInFlight

\* the headers of the client
ClientHeaders == [xForwardedFor |-> "203.0.113.1", xRealIp |-> "", xClientIp |-> ""]

\* the invocations that have reached the notifier
Notifying == {i \in DOMAIN inv : inv[i].pc # "idle" /\ inv[i].validation = "valid"}

\* A POST of the client arrives; the slots are taken in order.
PostArrives(i) ==
    /\ inv[i].pc = "idle"
    /\ i > 1 => inv[i - 1].pc # "idle"
    /\ SubmitPlanStarts(i, "POST", ClientHeaders)

\* Its body has been read: a plan, valid or not.
PlanRead(i, body) ==
    /\ body = Parsed(ValidPlan) => Cardinality(Notifying) < MaxNotifying
    /\ TextSettles(i, body, JNull, TRUE, TypicalRandom)

WarmAt == GlobalWindowMs - 1
WarmEntry(l) ==
    [count |-> SubmitPlanMaxRequests - ClientHeadroom, resetTime |-> WarmAt + WindowOf(l)]

InitConcurrent ==
    /\ now = WarmAt
    /\ config = ModuleConfig
    /\ requests = [l \in Limiters |-> [k \in Identifiers |->
                      IF k \in DirectKeys(l) THEN WarmEntry(l) ELSE NoEntry]]
    /\ last = NoCall
    /\ window = [l \in Limiters |-> [k \in Identifiers |-> NoWindow]]
    /\ inv = [i \in InFlight |-> NoInvocation]
    /\ posts = 0

NextConcurrent ==
    \/ Tick
    \/ \E i \in InFlight : PostArrives(i)
    \/ \E i \in InFlight, body \in {Parsed(ValidPlan), Parsed(InvalidPlan)} : PlanRead(i, body)
    \/ \E i \in InFlight, resolves \in BOOLEAN : BeginSendSettles(i, resolves)
    \/ \E i \in InFlight, result \in PollResults : PollSettles(i, result)
    \/ \E i \in InFlight : SleepEnds(i)
    \/ \E i \in InFlight : FlushSettles(i)

SpecConcurrent == InitConcurrent /\ [][NextConcurrent]_vars


(***************************************************************************)
(* Runs in which every await settles: the body is read or the read fails,  *)
(* beginSend and pollUntilDone resolve or reject, the timer of a sleep     *)
(* fires, flush resolves.  Time passes only while the handler sleeps.      *)
(* These runs draw Math.random() from Randoms; the other runs of the       *)
(* gateway use the typical value throughout.                               *)
(***************************************************************************)
MaxLivePosts == 2       \* POSTs handled in one such run

\* a request arrives
Arrives(i, method, h) ==
    /\ method = "POST" => posts < MaxLivePosts
    /\ SubmitPlanStarts(i, method, h)

\* the delay of setTimeout(resolve, ms) has passed
TimePassesUntilWake(i) ==
    /\ inv[i].pc = "sleep"
    /\ now < inv[i].wakeAt
    /\ now' = inv[i].wakeAt
    /\ UNCHANGED <<config, requests, last, window, inv, posts>>

InitLive ==
    /\ now = 0
    /\ config = ModuleConfig
    /\ requests = [l \in Limiters |-> [k \in Identifiers |-> NoEntry]]
    /\ last = NoCall
    /\ window = [l \in Limiters |-> [k \in Identifiers |-> NoWindow]]
    /\ inv = [i \in Invocations |-> NoInvocation]
    /\ posts = 0

TextSettlesSomehow(i) ==
    \E body \in RequestBodies, userAgent \in UserAgents, connected \in BOOLEAN, random \in Randoms :
        TextSettles(i, body, userAgent, connected, random)
BeginSendSettlesSomehow(i) == \E resolves \in BOOLEAN : BeginSendSettles(i, resolves)
PollSettlesSomehow(i) == \E result \in PollResults : PollSettles(i, result)

NextLive ==
    \/ \E i \in Invocations, method \in Methods, h \in RequestHeaders : Arrives(i, method, h)
    \/ \E i \in Invocations : TextSettlesSomehow(i)
    \/ \E i \in Invocations : BeginSendSettlesSomehow(i)
    \/ \E i \in Invocations : PollSettlesSomehow(i)
    \/ \E i \in Invocations : TimePassesUntilWake(i)
    \/ \E i \in Invocations : SleepEnds(i)
    \/ \E i \in Invocations : FlushSettles(i)

\* every external call of an invocation eventually returns or throws
Settling ==
    \A i \in Invocations :
        /\ WF_vars(TextSettlesSomehow(i))
        /\ WF_vars(BeginSendSettlesSomehow(i))
        /\ WF_vars(PollSettlesSomehow(i))
        /\ WF_vars(TimePassesUntilWake(i))
        /\ WF_vars(SleepEnds(i))
        /\ WF_vars(FlushSettles(i))

SpecLive == InitLive /\ [][NextLive]_vars /\ Settling


(***************************************************************************)
(* C3: every POST that passes both rate limits, parses as JSON and passes  *)
(* validation is answered 200 with success = true whatever the notifier    *)
(* does (it returns false, it throws, or the EmailService constructor      *)
(* throws), and emailSent is true exactly when sendPlanNotification        *)
(* returned true.                                                          *)
(***************************************************************************)
Handled == {i \in Invocations : inv[i].pc # "idle" /\ inv[i].kind = "submitPlan"}

C3_ValidPostAnswered200 ==
    \A i \in Handled :
        LET r == inv[i] IN
        (r.method = "POST" /\ r.globalRateLimit.allowed /\ r.ipRateLimit.allowed
            /\ r.text = "json" /\ r.validation = "valid")
        => /\ r.pc \in {"beginSend", "pollUntilDone", "sleep", "flush", "done"}
           /\ r.pc = "flush" => r.flushStatus = 200
           /\ r.pc = "done" =>
                /\ r.response.status = 200
                /\ r.response.body.success = TRUE
                /\ r.response.body.emailSent = (r.notifier = "true")
                /\ r.constructed = "threw" => r.notifier = "not called"

\* a validated POST answered 200 after the notifier returned false
C3_Witness ==
    \E i \in Handled :
        /\ inv[i].pc = "done" /\ inv[i].validation = "valid"
        /\ inv[i].notifier = "false"
        /\ inv[i].response.status = 200 /\ inv[i].response.body.emailSent = FALSE

(***************************************************************************)
(* C4: a POST that one of the two limiters denies is answered 429; its     *)
(* body is never read or parsed, the validator and the notifier are never  *)
(* invoked, and Retry-After is computed from the resetTime of the denying  *)
(* entry: the global entry's when the global limiter denies, otherwise the *)
(* per-identifier entry's.                                                 *)
(***************************************************************************)
C4_DeniedPostAnswered429 ==
    \A i \in Handled :
        LET r == inv[i]
            denying == IF ~r.globalRateLimit.allowed THEN r.globalRateLimit.resetTime
                       ELSE r.ipRateLimit.resetTime
        IN
        (r.method = "POST" /\ (~r.globalRateLimit.allowed \/ ~r.ipRateLimit.allowed))
        => /\ r.pc = "done"
           /\ r.response.status = 429
           /\ r.textCalls = 0 /\ r.text = "unread"
           /\ r.validatorCalls = 0 /\ r.validation = "none"
           /\ r.constructed = "no" /\ r.notifierCalls = 0 /\ r.sends = 0
           /\ \E t \in Instants :
                /\ t <= now
                /\ r.response.RetryAfter = CeilDiv(denying - t, 1000)

\* the global limiter denies a POST the per-IP limiter would let through
C4_Witness ==
    \E i \in Handled :
        /\ inv[i].method = "POST" /\ inv[i].response.status = 429
        /\ ~inv[i].globalRateLimit.allowed /\ inv[i].ipRateLimit.allowed
        /\ inv[i].globalRateLimit.resetTime # inv[i].ipRateLimit.resetTime

(***************************************************************************)
(* C5: once 10 POSTs of an identifier have been counted in its current     *)
(* 15-minute window, every further POST of it inside the window is         *)
(* answered 429, and the retryAfter of the body and the Retry-After header *)
(* are a positive number of seconds.  It is stated for the POSTs that the  *)
(* global limiter lets through, where the per-identifier entry alone       *)
(* denies and gives the reset time.                                        *)
(***************************************************************************)
C5_RetryAfterPositive ==
    \A i \in Handled :
        (inv[i].method = "POST" /\ inv[i].globalRateLimit.allowed /\ ~inv[i].ipRateLimit.allowed)
        => /\ inv[i].response.status = 429
           /\ inv[i].response.RetryAfter > 0
           /\ inv[i].response.body.retryAfter > 0

(***************************************************************************)
(* C6: sendPlanNotification makes its send attempts one after another and  *)
(* stops at the first that fully succeeds: when every attempt fails it     *)
(* makes exactly 3 attempts and returns false; when attempt k of 1..3 is   *)
(* the first to succeed it returns true after exactly k send calls and     *)
(* makes no further send call.                                             *)
(***************************************************************************)
Notified == {i \in Invocations : inv[i].pc # "idle" /\ inv[i].kind = "sendPlanNotification"}

C6_StopsAtFirstSuccess ==
    \A i \in Notified :
        LET r == inv[i]
            n == Len(r.outcomes)
        IN
        /\ \A j \in 1..(n - 1) : r.outcomes[j] = "failed"
        /\ r.sends <= r.attempt /\ r.attempt <= 3
        /\ r.pc # "done" => /\ n < 3
                            /\ \A j \in 1..n : r.outcomes[j] = "failed"
        /\ r.pc = "done" =>
             /\ n \in 1..3
             /\ r.attempt = n
             /\ IF r.outcomes[n] = "succeeded"
                THEN r.notifier = "true" /\ r.sends = n
                ELSE r.notifier = "false" /\ n = 3

\* the second attempt is the first to succeed: true after two send calls
C6_Witness ==
    \E i \in Notified :
        /\ inv[i].pc = "done" /\ inv[i].notifier = "true"
        /\ inv[i].outcomes = <<"failed", "succeeded">> /\ inv[i].sends = 2

(***************************************************************************)
(* C7: when every send attempt fails, the backoff delays that              *)
(* sendPlanNotification waits between attempts are 2 s, 4 s and 8 s, a     *)
(* worst-case total of 2 + 4 + 8 = 14 seconds over the 3 attempts.         *)
(***************************************************************************)
RECURSIVE Sum(_)
Sum(s) == IF s = <<>> THEN 0 ELSE s[1] + Sum(Tail(s))

C7_BackoffTwoFourEight ==
    \A i \in Notified :
        (inv[i].pc = "done" /\ inv[i].notifier = "false")
        => /\ inv[i].delays = <<2000, 4000, 8000>>
           /\ Sum(inv[i].delays) = 14000

(***************************************************************************)
(* C8: sendPlanNotification never throws to its caller: an error thrown    *)
(* while the message is built, by beginSend or by pollUntilDone, and a     *)
(* result whose status is not 'Succeeded', each count as a failed attempt, *)
(* retried while attempts remain, and the call resolves to a boolean.      *)
(***************************************************************************)
C8_NeverThrows ==
    \A i \in Notified :
        LET r == inv[i] IN
        /\ r.notifier \in {"not called", "true", "false"}
        /\ r.pc = "done" <=> r.notifier \in {"true", "false"}
        /\ r.pc = "sleep" => Len(r.outcomes) = r.attempt /\ r.attempt < 3
        /\ r.pc \in {"beginSend", "pollUntilDone"} => Len(r.outcomes) = r.attempt - 1
        /\ r.pc = "done" => Len(r.outcomes) = r.attempt

\* the message cannot be built: three failed attempts, no send, false
C8_Witness ==
    \E i \in Notified :
        /\ inv[i].pc = "done" /\ inv[i].throwsAt = "generateEmailContent"
        /\ inv[i].notifier = "false" /\ inv[i].sends = 0
        /\ inv[i].outcomes = <<"failed", "failed", "failed">>

(***************************************************************************)
(* C9: an OPTIONS request is answered 200 with the CORS headers and no     *)
(* body, a request whose method is neither POST nor OPTIONS is answered    *)
(* 405; in both cases neither rate limiter's state changes, the body is    *)
(* not read, and the validator and the notifier are not invoked.           *)
(***************************************************************************)
C9_Step ==
    \A i \in Invocations :
        (inv'[i] # inv[i] /\ inv'[i].pc # "idle" /\ inv'[i].kind = "submitPlan"
            /\ inv'[i].method # "POST")
        => /\ requests' = requests
           /\ inv'[i].pc = "done"
           /\ inv'[i].method = "OPTIONS"
                => inv'[i].response = [status |-> 200, headers |-> securityHeaders, body |-> "none"]
           /\ inv'[i].method # "OPTIONS" => inv'[i].response.status = 405
           /\ inv'[i].textCalls = 0 /\ inv'[i].text = "unread"
           /\ inv'[i].validatorCalls = 0 /\ inv'[i].validation = "none"
           /\ inv'[i].constructed = "no" /\ inv'[i].notifierCalls = 0 /\ inv'[i].sends = 0

C9_PreflightAndOtherMethods == [][C9_Step]_vars

\* a GET answered 405 while both limiters hold entries
C9_Witness ==
    \E i \in Handled :
        /\ inv[i].method = "GET" /\ inv[i].response.status = 405
        /\ requests["globalRateLimiter"]["global"].count > 0
        /\ requests["submitPlanRateLimiter"][inv[i].clientIP].count > 0

(***************************************************************************)
(* C10: a POST that passes both rate limits and whose body text is not     *)
(* valid JSON is answered 400 with error 'Invalid JSON' and a message      *)
(* saying that the body must be valid JSON; neither the validator nor the  *)
(* notifier is invoked.                                                    *)
(***************************************************************************)
C10_MalformedJsonAnswered400 ==
    \A i \in Handled :
        LET r == inv[i] IN
        (r.method = "POST" /\ r.globalRateLimit.allowed /\ r.ipRateLimit.allowed
            /\ r.text = "malformed")
        => /\ r.pc = "done"
           /\ r.response.status = 400
           /\ r.response.body.error = "Invalid JSON"
           /\ r.response.body.message = "Request body must be valid JSON"
           /\ r.validatorCalls = 0 /\ r.validation = "none"
           /\ r.constructed = "no" /\ r.notifierCalls = 0 /\ r.sends = 0

C10_Witness ==
    \E i \in Handled :
        /\ inv[i].text = "malformed" /\ inv[i].textCalls = 1
        /\ inv[i].response.status = 400


(***************************************************************************)
(* C11: a POST that passes both rate limits and parses as JSON but fails   *)
(* validation is answered 400 with success = false and details equal to    *)
(* the validator's error list; no submission id is generated and the       *)
(* notifier is never invoked.                                              *)
(***************************************************************************)
C11_InvalidPlanAnswered400 ==
    \A i \in Handled :
        LET r == inv[i] IN
        (r.method = "POST" /\ r.globalRateLimit.allowed /\ r.ipRateLimit.allowed
            /\ r.text = "json" /\ r.validation = "invalid")
        => /\ r.pc = "done"
           /\ r.response.status = 400
           /\ r.response.body.success = FALSE
           /\ r.errors # <<>>
           /\ r.response.body.details = r.errors
           /\ r.submissionId = NoSubmissionId
           /\ r.constructed = "no" /\ r.notifierCalls = 0 /\ r.sends = 0
           /\ r.notifier = "not called"

\* the plan of scenario 3 is answered 400 with its four field errors
C11_Witness ==
    \E i \in Handled :
        /\ inv[i].validation = "invalid" /\ inv[i].bodyType = "object"
        /\ inv[i].response.status = 400
        /\ Len(inv[i].response.body.details) = 4

(***************************************************************************)
(* C12: a POST that passes both rate limits and whose body is valid JSON   *)
(* but no object (null, a number, a string, a boolean) is a client input   *)
(* error: the validator rejects it with the single generic 'body' error    *)
(* and submitPlan answers 400.                                             *)
(***************************************************************************)
C12_NonObjectAnswered400 ==
    \A i \in Handled :
        LET r == inv[i] IN
        (r.method = "POST" /\ r.globalRateLimit.allowed /\ r.ipRateLimit.allowed
            /\ r.text = "json" /\ r.bodyType \in {"null", "number", "string", "boolean"}
            /\ r.pc = "done")
        => /\ r.response.status = 400
           /\ r.validatorCalls = 1
           /\ r.errors = <<Error("body", "Request body is required and must be an object")>>

(***************************************************************************)
(* C13: no exception escapes submitPlan: every invocation returns one      *)
(* well-formed response with status 200, 400, 405, 429 or 500, and an      *)
(* unexpected exception raised after the rate-limit gate is answered 500   *)
(* with the fixed generic body, which holds no text of the exception.      *)
(***************************************************************************)
C13_EveryPathAnswers ==
    \A i \in Handled :
        LET r == inv[i] IN
        /\ r.pc \in {"text", "beginSend", "pollUntilDone", "sleep", "flush", "done"}
        /\ r.pc = "done" =>
             /\ r.response.status \in {200, 400, 405, 429, 500}
             /\ r.response.headers = securityHeaders
             /\ r.response.status = 500 =>
                  r.response.body =
                     [error |-> "Internal server error",
                      message |-> "An unexpected error occurred while processing your request"]
        /\ (r.bodyType \in {"null", "number", "string", "boolean"} \/ r.validation = "threw")
             => /\ r.pc \in {"flush", "done"}
                /\ r.pc = "flush" => r.flushStatus = 500
                /\ r.pc = "done" => r.response.status = 500

\* the TypeError of requestBody.userAgent = ... on a null body ends in the 500
C13_Witness ==
    \E i \in Handled :
        /\ inv[i].pc = "done" /\ inv[i].bodyType = "null"
        /\ inv[i].response.status = 500

(***************************************************************************)
(* C14: both rate limiters are consulted for every POST whatever the other *)
(* answers: a POST the global limiter denies still increments (or opens)   *)
(* the per-identifier entry of its identifier, and a POST the              *)
(* per-identifier limiter denies has still incremented the global entry.   *)
(***************************************************************************)
\* entry e has become e2 by one counted request
Consumed(e, e2) ==
    \/ e2.resetTime = e.resetTime /\ e2.count = e.count + 1
    \/ e2.count = 1 /\ e2.resetTime > e.resetTime

C14_Step ==
    \A i \in Invocations :
        (inv'[i] # inv[i] /\ inv[i].pc \in {"idle", "done"} /\ inv'[i].pc # "idle"
            /\ inv'[i].kind = "submitPlan" /\ inv'[i].method = "POST")
        => LET r == inv'[i] IN
           /\ (~r.globalRateLimit.allowed /\ r.ipRateLimit.allowed)
                => Consumed(requests["submitPlanRateLimiter"][r.clientIP],
                            requests'["submitPlanRateLimiter"][r.clientIP])
           /\ (~r.ipRateLimit.allowed /\ r.globalRateLimit.allowed)
                => Consumed(requests["globalRateLimiter"]["global"],
                            requests'["globalRateLimiter"]["global"])

C14_BothLimitersConsulted == [][C14_Step]_vars

\* a POST the global limiter denied has taken a slot of its identifier
C14_Witness ==
    \E i \in Handled :
        /\ inv[i].method = "POST" /\ inv[i].response.status = 429
        /\ ~inv[i].globalRateLimit.allowed
        /\ inv[i].ipRateLimit.allowed
        /\ requests["submitPlanRateLimiter"][inv[i].clientIP].count
              = SubmitPlanMaxRequests - inv[i].ipRateLimit.remaining
        /\ requests["submitPlanRateLimiter"][inv[i].clientIP].count > 1

\* the calls of validatePlanSubmission that have returned or thrown
Validated ==
    { i \in Invocations : inv[i].pc = "done" /\ inv[i].kind = "validatePlanSubmission" }

\* the number of bytes of the UTF-8 encoding of s
Utf8Length(s) == Len(s) + 2 * Cardinality({ j \in 1..Len(s) : s[j] = Euro })

(***************************************************************************)
(* C15: for every object payload whose serialization is larger than        *)
(* 10 000 bytes, validatePlanSubmission returns isValid = false with       *)
(* exactly one error, a 'body' error, and no error of a field, whether the *)
(* fields are valid or not.                                                *)
(***************************************************************************)
C15_OversizedRejected ==
    \A i \in Validated :
        LET r == inv[i] IN
        (r.data.t = "object" /\ Utf8Length(Stringify(r.data)) > MaxPayloadLength)
            => /\ ~r.result.threw
               /\ ~r.result.isValid
               /\ Len(r.result.errors) = 1
               /\ r.result.errors[1].field = "body"

(***************************************************************************)
(* C16: for every object payload whose serialization holds a match of a    *)
(* suspicious pattern in any mix of cases (a script tag pair, javascript:, *)
(* vbscript:, data:text/html, on<word>=, eval(, expression( ),             *)
(* validatePlanSubmission returns isValid = false with exactly one error,  *)
(* the 'body' malicious-content error, even when every field is valid and  *)
(* whatever the size of the payload.                                       *)
(***************************************************************************)
C16_SuspiciousRejected ==
    \A i \in Validated :
        LET r == inv[i] IN
        (/\ r.data.t = "object"
         /\ \E k \in {"notes", "customActivity", "userAgent"} :
                Get(r.data, k) \in ForbiddenValues)
            => r.result = [threw |-> FALSE, isValid |-> FALSE,
                           errors |-> <<Error("body",
                                          "Request contains potentially malicious content")>>]

\* a plan whose fields are all valid, customActivity 'JavaScript:alert(1)'
\* included, is rejected for the pattern
C16_Witness ==
    \E i \in Validated :
        /\ inv[i].data = With(ValidPlan, "customActivity",
                              JString(<<"J","a","v","a","S","c","r","i","p","t",":",
                                        "a","l","e","r","t","(","1",")">>))
        /\ NameErrors(inv[i].data) \o TimeErrors(inv[i].data)
              \o ActivitiesErrors(inv[i].data) \o CustomActivityErrors(inv[i].data) = <<>>
        /\ ~inv[i].result.isValid
        /\ Len(inv[i].result.errors) = 1
        /\ inv[i].result.errors[1].field = "body"

(***************************************************************************)
(* C17: when no whole-payload gate fires validatePlanSubmission checks     *)
(* every field and does not stop at the first error: the error list holds, *)
(* in the order name, date, time, activities, customActivity, exactly one  *)
(* error for each field whose value violates its rule and none for a field *)
(* whose value satisfies it (the plan with an empty name, an unparseable   *)
(* date, the time 25:99 and no activity yields four), and several invalid  *)
(* entries of activities yield one 'activities' error; when a gate fires   *)
(* (no object, a suspicious pattern, more than 10 000 characters) the list *)
(* holds exactly one 'body' error.  A time with a one-digit hour counts as *)
(* satisfying the rule of time here.                                       *)
(***************************************************************************)
Fields == <<"name", "date", "time", "activities", "customActivity">>

\* the values above that violate the rule of their field
C17_Violating ==
    [name |-> {Undefined, JString(<<>>), JString(<<"J", "@", "n", "e">>), JString(Rep("a", MaxNameLength + 1))},
     date |-> {Undefined, JString(<<"n", "o", "t", "-", "a", "-", "d", "a", "t", "e">>), JString(<<"2", "0", "2", "3", "-", "0", "2", "-", "1", "4">>)},
     time |-> {Undefined, JString(<<"2", "5", ":", "9", "9">>), JString(<<"1", "9", ":", "0">>)},
     activities |-> {Undefined, JArray(<<>>),
                     JArray(<<JString(<<"D", "i", "n", "n", "e", "r">>), JNumber(5)>>),
                     JArray(<<JString(<<"D", "i", "n", "n", "e", "r">>), JString(<<"<", "b", ">">>), JString(<<" ">>)>>),
                     JArray(Rep(JString(<<"D", "i", "n", "n", "e", "r">>), MaxActivities + 1))},
     customActivity |-> {JNumber(5), JString(<<"<", "i", ">">>),
                         JString(Rep("a", MaxCustomActivityLength + 1))}]

\* the fields of data that violate their rule, in the order of Fields
C17_Expected(data) ==
    LET Violates(f) == Get(data, f) \in C17_Violating[f] IN SelectSeq(Fields, Violates)

C17_GateFires(data) ==
    \/ data.t \notin {"object", "array"}
    \/ \E k \in {"notes", "customActivity", "userAgent"} : Get(data, k) \in ForbiddenValues
    \/ Get(data, "notes") = JString(Rep("a", MaxPayloadLength))

C17_OnlyFields(data) ==
    /\ data.t \in {"object", "array"}
    /\ data.t = "object" => \A j \in 1..Len(data.m) : \E f \in 1..Len(Fields) : data.m[j].k = Fields[f]
    /\ ~C17_GateFires(data)

C18_NeverThrows == \A i \in Validated : ~inv[i].result.threw

\* the calls of sanitizeString that have returned
Sanitized == { i \in Invocations : inv[i].pc = "done" /\ inv[i].kind = "sanitizeString" }

(***************************************************************************)
(* C19: sanitization is idempotent: for every string s,                    *)
(* sanitizeString(sanitizeString(s)) equals sanitizeString(s).             *)
(***************************************************************************)
C19_Idempotent ==
    \A i \in Sanitized : sanitizeString(inv[i].output) = inv[i].output

(***************************************************************************)
(* C20: whenever validatePlanSubmission returns isValid = true, the        *)
(* sanitized record satisfies every constraint of the data model: name has *)
(* 1 to 100 characters of the name charset and no white space at either    *)
(* end; time is two digits, a colon and two digits, with the hour 00 to 23 *)
(* and the minute 00 to 59; activities holds 1 to 20 strings of 1 to 100   *)
(* characters of the extended charset; customActivity, if present, has at  *)
(* most 200 characters of the extended charset.                            *)
(***************************************************************************)
C20_Digits(s) == \A j \in 1..Len(s) : s[j] \in Digit

C20_NameOk(s) ==
    /\ Len(s) \in 1..MaxNameLength
    /\ trim(s) = s
    /\ \A j \in 1..Len(s) : IsNameChar(s[j])

C20_TimeOk(s) ==
    /\ Len(s) = 5
    /\ s[3] = ":"
    /\ C20_Digits(SubSeq(s, 1, 2)) /\ C20_Digits(SubSeq(s, 4, 5))
    /\ s[1] \in {"0", "1"} \/ (s[1] = "2" /\ s[2] \in {"0", "1", "2", "3"})
    /\ s[4] \in {"0", "1", "2", "3", "4", "5"}

C20_ActivityOk(s) ==
    /\ Len(s) \in 1..MaxActivityLength
    /\ \A j \in 1..Len(s) : IsActivityChar(s[j])

C20_SanitizedWithinModel ==
    \A i \in Validated :
        inv[i].result.isValid =>
            LET sanitized == inv[i].result.sanitized IN
            /\ C20_NameOk(sanitized.name)
            /\ C20_TimeOk(sanitized.time)
            /\ Len(sanitized.activities) \in 1..MaxActivities
            /\ \A j \in 1..Len(sanitized.activities) : C20_ActivityOk(sanitized.activities[j])
            /\ sanitized.customActivity # Undefined
                 => /\ Len(sanitized.customActivity.s) <= MaxCustomActivityLength
                    /\ \A j \in 1..Len(sanitized.customActivity.s) :
                           IsActivityChar(sanitized.customActivity.s[j])

(***************************************************************************)
(* C21: on every 200 response to a POST, X-RateLimit-Limit is 10,          *)
(* X-RateLimit-Remaining is 10 minus the count of the caller's             *)
(* per-identifier entry as this request's isAllowed left it, and           *)
(* X-RateLimit-Reset is that entry's resetTime in seconds, rounded up;     *)
(* also when other requests of the same identifier are counted while this  *)
(* one awaits the notifier.                                                *)
(***************************************************************************)
Answered == {i \in DOMAIN inv : inv[i].pc = "done" /\ inv[i].kind = "submitPlan"}

C21_HeadersOfOwnRequest ==
    \A i \in Answered :
        LET r == inv[i] IN
        (r.method = "POST" /\ r.response.status = 200)
            => /\ r.response.XRateLimitLimit = SubmitPlanMaxRequests
               /\ r.response.XRateLimitRemaining = SubmitPlanMaxRequests - r.ipEntry.count
               /\ r.response.XRateLimitReset = CeilDiv(r.ipEntry.resetTime, 1000)

\* a 200 built after a later request of the same client was counted: the
\* entry has moved on, the headers have not
C21_Witness ==
    \E i \in Answered :
        /\ inv[i].response.status = 200 /\ inv[i].notifierCalls = 1
        /\ requests["submitPlanRateLimiter"][inv[i].clientIP].resetTime = inv[i].ipEntry.resetTime
        /\ requests["submitPlanRateLimiter"][inv[i].clientIP].count > inv[i].ipEntry.count
        /\ inv[i].response.XRateLimitRemaining = SubmitPlanMaxRequests - inv[i].ipEntry.count
        /\ inv[i].response.XRateLimitReset * 1000 > inv[i].ipEntry.resetTime

(***************************************************************************)
(* C22: whenever a validated request is answered with emailSent = false,   *)
(* exactly one error-level 'Email notification failure' event has been     *)
(* logged for its submission id before the response, whether the notifier  *)
(* returned false, threw or could not be constructed; whenever it is       *)
(* answered with emailSent = true, exactly one 'success' event and no      *)
(* 'failure' event has been logged; and the 'Plan submission received'     *)
(* event precedes every email event.                                       *)
(***************************************************************************)
\* the positions in the events of r of the events with message m
C22_At(r, m) ==
    { j \in 1..Len(r.events) : r.events[j].message = m /\ r.events[j].id = r.submissionId }

C22_EmailOutcomeLoggedOnce ==
    \A i \in Handled :
        LET r == inv[i]
            failures == C22_At(r, "Email notification failure")
            successes == C22_At(r, "Email notification success")
            emails == failures \cup successes \cup C22_At(r, "Email notification attempt")
        IN  /\ \A j \in 1..Len(r.events) : r.events[j].id = r.submissionId
            /\ \A j \in failures : r.events[j].level = "error"
            /\ emails # {} =>
                  /\ C22_At(r, "Plan submission received") # {}
                  /\ \A j \in emails : \E k \in C22_At(r, "Plan submission received") : k < j
            /\ (r.validation = "valid" /\ r.pc \in {"flush", "done"}) =>
                  IF r.emailSent
                  THEN Cardinality(successes) = 1 /\ failures = {}
                  ELSE Cardinality(failures) = 1 /\ successes = {}
            /\ (r.validation = "valid" /\ r.pc = "done") =>
                  /\ r.response.status = 200
                  /\ r.response.body.emailSent = r.emailSent

\* answered with emailSent = false because the EmailService could not be
\* constructed: the one failure event follows the 'received' event
C22_Witness ==
    \E i \in Handled :
        /\ inv[i].pc = "done" /\ inv[i].validation = "valid"
        /\ inv[i].constructed = "threw"
        /\ ~inv[i].response.body.emailSent
        /\ Len(inv[i].events) = 2
        /\ inv[i].events[2].message = "Email notification failure"

(***************************************************************************)
(* C23: the periodic sweep is invisible to callers: for every sequence of  *)
(* isAllowed calls and clock advances, a RateLimiter whose cleanup() runs  *)
(* at arbitrary points between the calls returns the same (allowed,        *)
(* remaining, resetTime) as one whose cleanup never runs, and cleanup      *)
(* removes only entries with now >= resetTime.                             *)
(***************************************************************************)
C23_CleanupInvisible ==
    /\ (last # NoCall /\ last.lim = Swept) => last.result = last.twin
    /\ (last # NoCall /\ last.lim = "cleanup") =>
          \A k \in Identifiers :
              \/ last.after[k] = last.before[k]
              \/ /\ last.after[k] = NoEntry
                 /\ last.at >= last.before[k].resetTime

\* a call answered alike by both instances after the sweep has removed the
\* expired entry of its key from the first and kept the live entry of the
\* other key
C23_Witness ==
    /\ last # NoCall /\ last.lim = Swept
    /\ last.before = NoEntry
    /\ requests[Unswept][last.key].count = 1
    /\ last.at > 0
    /\ \E k \in TwinKeys \ {last.key} :
          /\ requests[Swept][k] # NoEntry
          /\ requests[Swept][k].resetTime > last.at
    /\ last.twin.allowed /\ last.twin.remaining = config[Unswept].maxRequests - 1

(***************************************************************************)
(* C24: with submitPlan invocations interleaved at their awaits, the check *)
(* and the increment of a rate-limit entry are one atomic step and no      *)
(* update is lost: of k POSTs of one identifier in flight within one       *)
(* window, the global limit not reached, exactly as many pass the          *)
(* per-identifier limiter as the window has slots left, min(k, 10) in a    *)
(* fresh window, and the others are answered 429.  Here the window had     *)
(* 10 - ClientHeadroom requests counted before the k arrived.              *)
(***************************************************************************)
Posted == {i \in DOMAIN inv : inv[i].pc # "idle" /\ inv[i].kind = "submitPlan"
                                 /\ inv[i].method = "POST"}
PassedIp == {i \in Posted : inv[i].ipRateLimit.allowed}

C24_Min(a, b) == IF a < b THEN a ELSE b

C24_NoLostUpdate ==
    LET counted == SubmitPlanMaxRequests - ClientHeadroom
        entry == requests["submitPlanRateLimiter"]["203.0.113.1"]
    IN  (/\ entry.resetTime = WarmEntry("submitPlanRateLimiter").resetTime
         /\ \A i \in Posted : inv[i].clientIP = "203.0.113.1" /\ inv[i].globalRateLimit.allowed)
        => /\ counted + Cardinality(PassedIp)
                 = C24_Min(counted + Cardinality(Posted), SubmitPlanMaxRequests)
           /\ entry.count = counted + Cardinality(PassedIp)
           /\ \A i \in Posted \ PassedIp :
                 inv[i].pc = "done" /\ inv[i].response.status = 429

\* the window's last two slots are held by two POSTs still suspended at an
\* await when a third arrives and is answered 429
C24_Witness ==
    \E i, j, d \in Posted :
        /\ i # j
        /\ inv[i].pc \in {"text", "beginSend", "pollUntilDone", "sleep", "flush"}
        /\ inv[j].pc \in {"text", "beginSend", "pollUntilDone", "sleep", "flush"}
        /\ inv[i].ipRateLimit.allowed /\ inv[j].ipRateLimit.allowed
        /\ ~inv[d].ipRateLimit.allowed
        /\ inv[d].response.status = 429
        /\ requests["submitPlanRateLimiter"]["203.0.113.1"].count = SubmitPlanMaxRequests

(***************************************************************************)
(* C25: every submitPlan invocation eventually returns a response and      *)
(* never goes back to an earlier stage of the pipeline, provided every     *)
(* external call (the read of the body, the send and the poll of the       *)
(* email, the flush of the telemetry) eventually returns or throws; the    *)
(* retry loop of the notifier ends after at most 3 attempts.               *)
(***************************************************************************)
\* the stage an invocation is in
C25_Stage(r) ==
    CASE r.pc = "text" -> 1
      [] r.pc \in {"beginSend", "pollUntilDone", "sleep"} -> 2
      [] r.pc = "flush" -> 3
      [] OTHER -> 4

C25_Forward ==
    \A i \in Invocations :
        (inv[i].pc \notin {"idle", "done"} /\ inv[i].kind = "submitPlan")
        => /\ C25_Stage(inv'[i]) >= C25_Stage(inv[i])
           /\ inv'[i].attempt >= inv[i].attempt
           /\ inv'[i].textCalls >= inv[i].textCalls
           /\ inv'[i].validatorCalls >= inv[i].validatorCalls
           /\ inv'[i].notifierCalls >= inv[i].notifierCalls

C25_EveryInvocationReturns ==
    /\ \A i \in Invocations :
          (inv[i].pc \notin {"idle", "done"}) ~> (inv[i].pc = "done" /\ inv[i].response.status # 0)
    /\ [][C25_Forward]_vars
    /\ [](\A i \in Handled : /\ inv[i].attempt <= 3 /\ inv[i].sends <= 3
                             /\ inv[i].textCalls <= 1 /\ inv[i].validatorCalls <= 1
                             /\ inv[i].notifierCalls <= 1)

\* answered after the third attempt failed
C25_Witness ==
    \E i \in Handled :
        /\ inv[i].pc = "done" /\ inv[i].response.status = 200
        /\ inv[i].attempt = 3 /\ inv[i].outcomes = <<"failed", "failed", "failed">>
        /\ inv[i].delays = <<2000, 4000>>

(***************************************************************************)
(* C26: every 200 response to a POST carries a submissionId that matches   *)
(* ^sub_\d+_[a-z0-9]+$ : 'sub_', the time in milliseconds, '_' and a       *)
(* suffix of one or more lower-case letters and digits.                    *)
(***************************************************************************)
\* /^sub_\d+_[a-z0-9]+$/ matches s
C26_Matches(s) ==
    \E u \in 6..(Len(s) - 1) :
        /\ SubSeq(s, 1, 4) = <<"s", "u", "b", "_">>
        /\ \A j \in 5..(u - 1) : s[j] \in Digit
        /\ s[u] = "_"
        /\ \A j \in (u + 1)..Len(s) : s[j] \in Digit \cup Lower

C26_SubmissionIdWellFormed ==
    \A i \in Answered :
        (inv[i].method = "POST" /\ inv[i].response.status = 200)
            => C26_Matches(inv[i].response.body.submissionId)

\* ---------------------------------------------------------------------------
\* The wizard (App.tsx, Planner.tsx) and its call of ApiService.submitPlan.
\* One App instance is inv[i] with kind "App".  A click is handled, rendered
\* and committed before the next event is dispatched, so a handler sees the
\* step on screen; the effect of a commit is a step of its own.
\* ---------------------------------------------------------------------------
MaxRenders == 2          \* re-renders of an App without a change of state

Names == {<<>>, <<" ">>, <<"A", "l">>}
Times == {"7:00 PM", "Anytime"}
ActivityIds == {"movie", "dinner", "surprise-me"}
CustomActivities == {<<>>, <<" ">>, <<"P", "i", "c", "n", "i", "c">>}
Today == 20000
Days == {Today - 1, Today}
NoDate == -1

\* useState<PlanDetails> of App and of Planner
EmptyDetails ==
    [date |-> NoDate, time |-> "", name |-> <<>>, activities |-> <<>>,
     customActivity |-> <<>>]

handleDateSelect(d, day) == IF day >= Today THEN [d EXCEPT !.date = day] ELSE d

handleTimeSelect(d, time) == [d EXCEPT !.time = time]

handleNameChange(d, value) == [d EXCEPT !.name = value]

Includes(a, x) == \E k \in 1..Len(a) : a[k] = x

Without(a, x) == SelectSeq(a, LAMBDA y : y # x)

\* mutant of handleActivityToggle: a regular activity is added to whatever is
\* selected, 'surprise-me' included
handleActivityToggleKeepingSurprise(d, activityId) ==
    LET currentActivities == d.activities
        newActivities ==
            IF activityId = "surprise-me"
            THEN IF Includes(currentActivities, "surprise-me") THEN <<>>
                 ELSE <<"surprise-me">>
            ELSE IF Includes(currentActivities, activityId)
                 THEN Without(currentActivities, activityId)
                 ELSE Append(currentActivities, activityId)
    IN  [d EXCEPT !.activities = newActivities, !.customActivity = <<>>]

handleActivityToggle(d, activityId) ==
    LET isSurprise == activityId = "surprise-me"
        currentActivities == d.activities
        regularActivities == Without(currentActivities, "surprise-me")
        newActivities ==
            IF isSurprise
            THEN IF Includes(currentActivities, "surprise-me") THEN <<>>
                 ELSE <<"surprise-me">>
            ELSE IF Includes(regularActivities, activityId)
                 THEN Without(regularActivities, activityId)
                 ELSE Append(regularActivities, activityId)
    IN  [d EXCEPT !.activities = newActivities, !.customActivity = <<>>]

handleCustomActivityChange(d, value) ==
    [d EXCEPT !.customActivity = value, !.activities = <<>>]

\* mutant of isPlannerComplete: the name is not looked at
isPlannerCompleteAnyName(details) ==
    /\ details.date # NoDate
    /\ details.time # ""
    /\ (Len(details.activities) > 0 \/ trim(details.customActivity) # <<>>)

isPlannerComplete(details) ==
    /\ details.date # NoDate
    /\ details.time # ""
    /\ trim(details.name) # <<>>
    /\ (Len(details.activities) > 0 \/ trim(details.customActivity) # <<>>)

\* What fetch and response.json() can do to makeRequest.
SubmissionData ==
    JObject(<<Member("success", JBoolean(TRUE)),
              Member("message", JString(<<"o", "k">>)),
              Member("submissionId", JString(<<"s", "u", "b", "_", "1">>)),
              Member("emailSent", JBoolean(TRUE))>>)
ErrorData ==
    JObject(<<Member("success", JBoolean(FALSE)),
              Member("message", JString(<<"n", "o">>)),
              Member("error", JString(<<"b", "a", "d">>))>>)
Fetches ==
    {[threw |-> "nothing", ok |-> TRUE, data |-> SubmissionData],
     [threw |-> "nothing", ok |-> TRUE, data |-> JObject(<<>>)],
     [threw |-> "nothing", ok |-> TRUE, data |-> JNumber(0)],
     [threw |-> "nothing", ok |-> TRUE, data |-> JNull],
     [threw |-> "nothing", ok |-> FALSE, data |-> ErrorData],
     [threw |-> "nothing", ok |-> FALSE, data |-> JObject(<<>>)],
     [threw |-> "AbortError", ok |-> FALSE, data |-> Undefined],
     [threw |-> "TypeError", ok |-> FALSE, data |-> Undefined],
     [threw |-> "string", ok |-> FALSE, data |-> Undefined]}

\* a || b
OrElse(a, b) == IF Falsy(a) THEN b ELSE a

NetworkError ==
    [settled |-> "resolved", success |-> FALSE,
     message |-> JString(<<"N", "e", "t">>), data |-> Undefined]

makeRequest(f) ==
    IF f.threw = "AbortError"
    THEN [settled |-> "resolved", success |-> FALSE,
          message |-> JString(<<"T", "i", "m", "e", "d">>), data |-> Undefined]
    ELSE IF f.threw = "TypeError" THEN NetworkError
    ELSE IF f.threw = "string"
    THEN [settled |-> "resolved", success |-> FALSE,
          message |-> JString(<<"U", "n", "e", "x">>), data |-> Undefined]
    ELSE IF f.data.t \in {"null", "undefined"} THEN NetworkError
    ELSE IF ~f.ok
    THEN [settled |-> "resolved", success |-> FALSE,
          message |-> OrElse(Get(f.data, "message"),
                             JString(<<"R", "e", "q">>)),
          data |-> Undefined]
    ELSE [settled |-> "resolved", success |-> TRUE,
          message |-> OrElse(Get(f.data, "message"),
                             JString(<<"S", "u", "c", "c", "e", "s", "s">>)),
          data |-> f.data]

Rejected ==
    [settled |-> "rejected", success |-> FALSE, message |-> Undefined,
     data |-> Undefined]

\* How the promise of ApiService.submitPlan settles for the App.
Settlements == {makeRequest(f) : f \in Fetches} \cup {Rejected}

FailedToSubmit == JString(<<"F", "a", "i", "l", "e", "d">>)
UnexpectedError == JString(<<"U", "n", "e", "x", "p">>)

\* mutant of AfterSubmitPlan: success alone makes a SUCCESS
AfterSubmitPlanSuccessOnly(response) ==
    IF response.settled = "rejected"
    THEN [status |-> "ERROR", message |-> UnexpectedError]
    ELSE IF response.success
    THEN [status |-> "SUCCESS", message |-> response.message]
    ELSE [status |-> "ERROR", message |-> OrElse(response.message, FailedToSubmit)]

\* handlePlanSubmission after the await: the submissionState it sets
AfterSubmitPlan(response) ==
    IF response.settled = "rejected"
    THEN [status |-> "ERROR", message |-> UnexpectedError]
    ELSE IF response.success /\ ~Falsy(response.data)
    THEN [status |-> "SUCCESS", message |-> response.message]
    ELSE [status |-> "ERROR", message |-> OrElse(response.message, FailedToSubmit)]

NoResponse ==
    [settled |-> "none", success |-> FALSE, message |-> Undefined,
     data |-> Undefined]
NoDeps == <<>>

NewApp ==
    [pc |-> "mounted", kind |-> "App", step |-> "INITIAL",
     planDetails |-> EmptyDetails, details |-> EmptyDetails,
     submissionState |-> [status |-> "IDLE"], deps |-> NoDeps,
     calls |-> 0, calledAt |-> "none", submitted |-> EmptyDetails,
     response |-> NoResponse, renders |-> 0]

IsApp(i) == inv[i].pc = "mounted"

\* setStep from a callback of the screen shown at step `from`
SetStep(i, from, to) ==
    /\ IsApp(i)
    /\ inv[i].step = from
    /\ inv' = [inv EXCEPT ![i].step = to,
                          ![i].details = IF to = "PLANNING" THEN EmptyDetails ELSE @]
    /\ UNCHANGED <<now, config, requests, last, window, posts>>

onYes(i) == SetStep(i, "INITIAL", "PLANNING")

onMaybe(i) == SetStep(i, "INITIAL", "MAYBE")

onYesFromMaybe(i) == SetStep(i, "MAYBE", "PLANNING")

onEdit(i) == SetStep(i, "SUMMARY", "PLANNING")

onConfirm(i) == SetStep(i, "SUMMARY", "CONFIRMED")

\* an input of the Planner changes its details
PlannerInput(i) ==
    /\ IsApp(i)
    /\ inv[i].step = "PLANNING"
    /\ \E d \in {handleDateSelect(inv[i].details, day) : day \in Days}
              \cup {handleTimeSelect(inv[i].details, time) : time \in Times}
              \cup {handleNameChange(inv[i].details, v) : v \in Names}
              \cup {handleActivityToggle(inv[i].details, a) : a \in ActivityIds}
              \cup {handleCustomActivityChange(inv[i].details, v) :
                        v \in CustomActivities} :
          inv' = [inv EXCEPT ![i].details = d]
    /\ UNCHANGED <<now, config, requests, last, window, posts>>

\* the Finalize button of the Planner: onComplete(details), handlePlanCompletion
handlePlanCompletion(i) ==
    /\ IsApp(i)
    /\ inv[i].step = "PLANNING"
    /\ isPlannerComplete(inv[i].details)
    /\ inv' = [inv EXCEPT ![i].planDetails = inv[i].details,
                          ![i].step = "SUMMARY"]
    /\ UNCHANGED <<now, config, requests, last, window, posts>>

\* mutant of ShouldSubmit: the effect looks at the step alone
ShouldSubmitOnStep(step, status) == step = "CONFIRMED"

\* the condition of the effect
ShouldSubmit(step, status) == step = "CONFIRMED" /\ status = "IDLE"

\* useEffect(..., [step, submissionState.status]) after a commit
EffectRuns(i) ==
    /\ IsApp(i)
    /\ LET a == inv[i]
           deps == <<a.step, a.submissionState.status>>
       IN  /\ a.deps # deps
           /\ inv' = [inv EXCEPT ![i] =
                  IF ShouldSubmit(a.step, a.submissionState.status)
                  THEN [a EXCEPT !.deps = deps,
                                 !.submissionState = [status |-> "SUBMITTING"],
                                 !.calls = IF @ < 3 THEN @ + 1 ELSE @,
                                 !.calledAt = a.step,
                                 !.submitted = a.planDetails,
                                 !.response = [NoResponse EXCEPT !.settled = "pending"]]
                  ELSE [a EXCEPT !.deps = deps]]
    /\ UNCHANGED <<now, config, requests, last, window, posts>>

\* a render with no change of state: the dependencies are the same
Rerender(i) ==
    /\ IsApp(i)
    /\ inv[i].renders < MaxRenders
    /\ inv' = [inv EXCEPT ![i].renders = @ + 1]
    /\ UNCHANGED <<now, config, requests, last, window, posts>>

\* the promise of ApiService.submitPlan settles
SubmitPlanSettles(i, response) ==
    /\ IsApp(i)
    /\ inv[i].response.settled = "pending"
    /\ inv' = [inv EXCEPT ![i].response = response,
                          ![i].submissionState = AfterSubmitPlan(response)]
    /\ UNCHANGED <<now, config, requests, last, window, posts>>

InitApp ==
    /\ now = 0
    /\ config = ModuleConfig
    /\ requests = [l \in Limiters |-> [k \in Identifiers |-> NoEntry]]
    /\ last = NoCall
    /\ window = [l \in Limiters |-> [k \in Identifiers |-> NoWindow]]
    /\ inv = [i \in Invocations |-> NewApp]
    /\ posts = 0

NextApp ==
    \E i \in Invocations :
        \/ onYes(i)
        \/ onMaybe(i)
        \/ onYesFromMaybe(i)
        \/ PlannerInput(i)
        \/ handlePlanCompletion(i)
        \/ onEdit(i)
        \/ onConfirm(i)
        \/ EffectRuns(i)
        \/ Rerender(i)
        \/ \E response \in Settlements : SubmitPlanSettles(i, response)

SpecApp == InitApp /\ [][NextApp]_vars

\* ---------------------------------------------------------------------------
\* C27: once the user has confirmed the summary, the submission status of an
\* App moves IDLE -> SUBMITTING -> SUCCESS or ERROR and then stays: it is
\* SUBMITTING exactly while the call of ApiService.submitPlan is pending,
\* SUCCESS exactly when the call resolved with success = true and data
\* present, ERROR when it resolved otherwise or rejected, and the message
\* shown is the message of the response.
\* ---------------------------------------------------------------------------
C27_Moves ==
    {<<"IDLE", "SUBMITTING">>, <<"SUBMITTING", "SUCCESS">>,
     <<"SUBMITTING", "ERROR">>}

C27_Succeeded(r) == r.settled = "resolved" /\ r.success /\ ~Falsy(r.data)

C27_StatusFollowsCall ==
    \A i \in Invocations : IsApp(i) =>
        LET s == inv[i].submissionState
            r == inv[i].response
        IN  /\ s.status = "IDLE" <=> r.settled = "none"
            /\ s.status = "SUBMITTING" <=> r.settled = "pending"
            /\ s.status = "SUCCESS" <=> C27_Succeeded(r)
            /\ s.status = "ERROR" <=>
                   r.settled \in {"resolved", "rejected"} /\ ~C27_Succeeded(r)
            /\ s.status # "IDLE" => inv[i].step = "CONFIRMED"
            /\ r.settled = "resolved" /\ ~Falsy(r.message) => s.message = r.message

C27_StatusMoves ==
    \A i \in Invocations : IsApp(i) =>
        \/ inv'[i].submissionState.status = inv[i].submissionState.status
        \/ <<inv[i].submissionState.status, inv'[i].submissionState.status>>
               \in C27_Moves

C27_SubmissionStatus == []C27_StatusFollowsCall /\ [][C27_StatusMoves]_vars

\* an App whose call resolved with success = true and no data shows ERROR
C27_Witness ==
    \E i \in Invocations :
        /\ IsApp(i)
        /\ inv[i].response.settled = "resolved"
        /\ inv[i].response.success
        /\ Falsy(inv[i].response.data)
        /\ inv[i].submissionState.status = "ERROR"
        /\ inv[i].submissionState.message = inv[i].response.message

\* ---------------------------------------------------------------------------
\* C28: an App calls ApiService.submitPlan at most once, only while its step
\* is CONFIRMED, and with a plan that has a date, a time, a name and an
\* activity, however often it renders.
\* ---------------------------------------------------------------------------
C28_Complete(p) ==
    /\ p.date # NoDate
    /\ p.time # ""
    /\ \E k \in 1..Len(p.name) : ~IsSpace(p.name[k])
    /\ \/ p.activities # <<>>
       \/ \E k \in 1..Len(p.customActivity) : ~IsSpace(p.customActivity[k])

C28_CalledOnceConfirmed ==
    \A i \in Invocations : IsApp(i) =>
        /\ inv[i].calls <= 1
        /\ inv[i].calls > 0 =>
               /\ inv[i].calledAt = "CONFIRMED"
               /\ inv[i].step = "CONFIRMED"
               /\ C28_Complete(inv[i].submitted)

C28_CallsFromConfirmed ==
    \A i \in Invocations : IsApp(i) /\ inv'[i].calls # inv[i].calls =>
        /\ inv[i].step = "CONFIRMED"
        /\ inv[i].calls = 0

C28_SubmitOnce == []C28_CalledOnceConfirmed /\ [][C28_CallsFromConfirmed]_vars

\* the call has settled, the effect has run again and the App has re-rendered
C28_Witness ==
    \E i \in Invocations :
        /\ IsApp(i)
        /\ inv[i].calls = 1
        /\ inv[i].renders = MaxRenders
        /\ inv[i].submissionState.status = "SUCCESS"
        /\ inv[i].deps = <<"CONFIRMED", "SUCCESS">>

\* ---------------------------------------------------------------------------
\* A caller that calls isAllowed of one instance with one key and keeps the
\* times at which it was allowed, as far back as one window.
\* ---------------------------------------------------------------------------
NewCaller(l, k) ==
    [pc |-> "calling", kind |-> "Caller", lim |-> l, key |-> k, allowedAt |-> <<>>]

\* the times of s in the interval [t - windowMs, t]
Recent(s, t, windowMs) == SelectSeq(s, LAMBDA x : x >= t - windowMs)

CallAndRemember(i) ==
    /\ inv[i].pc = "calling"
    /\ LET c == inv[i]
           cfg == config[c.lim]
           r == isAllowed(cfg, requests[c.lim][c.key], now)
       IN  /\ Len(c.allowedAt) <= 2 * cfg.maxRequests
           /\ requests' = [requests EXCEPT ![c.lim][c.key] = r.entry]
           /\ last' = [lim |-> c.lim, key |-> c.key, at |-> now,
                       before |-> requests[c.lim][c.key], after |-> r.entry,
                       result |-> r.result]
           /\ window' = [window EXCEPT ![c.lim][c.key] = Observe(@, cfg, now)]
           /\ inv' = [inv EXCEPT ![i].allowedAt =
                         Recent(IF r.result.allowed THEN Append(@, now) ELSE @,
                                now, cfg.windowMs)]
    /\ UNCHANGED <<now, config, posts>>

InitBurst ==
    /\ now = 0
    /\ \E n \in 1..MaxN :
         config = [l \in Limiters |-> [windowMs |-> WindowOf(l), maxRequests |-> n]]
    /\ requests = [l \in Limiters |-> [k \in Identifiers |-> NoEntry]]
    /\ last = NoCall
    /\ window = [l \in Limiters |-> [k \in Identifiers |-> NoWindow]]
    /\ \E l \in Limiters : \E k \in DirectKeys(l) :
         inv = [i \in Invocations |-> NewCaller(l, k)]
    /\ posts = 0

NextBurst ==
    \/ Tick
    \/ \E l \in Limiters : Cleanup(l)
    \/ \E i \in Invocations : CallAndRemember(i)

SpecBurst == InitBurst /\ [][NextBurst]_vars

\* ---------------------------------------------------------------------------
\* C29: for one key, the calls of isAllowed that return allowed = true within
\* any interval [a, a + windowMs] number at most 2 x maxRequests.
\* ---------------------------------------------------------------------------
C29_AllowedWithin(i) ==
    Len(Recent(inv[i].allowedAt, now, config[inv[i].lim].windowMs))

C29_BurstBound ==
    \A i \in Invocations : inv[i].pc = "calling" =>
        C29_AllowedWithin(i) <= 2 * config[inv[i].lim].maxRequests

\* maxRequests calls allowed as one window opens and maxRequests more as the
\* next one opens, windowMs later
C29_Witness ==
    \E i \in Invocations :
        /\ inv[i].pc = "calling"
        /\ C29_AllowedWithin(i) = 2 * config[inv[i].lim].maxRequests
        /\ config[inv[i].lim].maxRequests = MaxN
        /\ inv[i].allowedAt[1] = now - config[inv[i].lim].windowMs

\* ---------------------------------------------------------------------------
\* C30: for one request the email send is attempted at most 3 times, and only
\* after the method, rate-limit, JSON-parse and validation gates have been
\* passed in that order; the gateway calls the notifier at most once, reads
\* and validates the body at most once, and after a failed attempt nothing of
\* the earlier stages is run again.
\* ---------------------------------------------------------------------------
C30_GatesInOrder ==
    \A i \in Handled :
        LET r == inv[i] IN
        /\ r.sends <= 3
        /\ r.notifierCalls <= 1 /\ r.textCalls <= 1 /\ r.validatorCalls <= 1
        /\ (r.globalRateLimit # NoResult \/ r.ipRateLimit # NoResult) => r.method = "POST"
        /\ r.textCalls > 0 => r.globalRateLimit.allowed /\ r.ipRateLimit.allowed
        /\ r.validatorCalls > 0 => r.textCalls > 0 /\ r.text = "json"
        /\ r.notifierCalls > 0 => r.validatorCalls > 0 /\ r.validation = "valid"
        /\ r.sends > 0 => r.notifierCalls > 0

C30_Earlier(r) ==
    <<r.method, r.clientIP, r.globalRateLimit, r.ipRateLimit, r.text, r.textCalls,
      r.validation, r.validatorCalls, r.notifierCalls, r.submissionId>>

C30_NothingRunAgain ==
    \A i \in Handled :
        (inv[i].pc # "done" /\ \E k \in 1..Len(inv[i].outcomes) : inv[i].outcomes[k] = "failed")
        => /\ C30_Earlier(inv'[i]) = C30_Earlier(inv[i])
           /\ inv'[i].sends <= inv[i].sends + 1
           /\ inv'[i] # inv[i] => requests' = requests

C30_NoRetryAboveNotifier == []C30_GatesInOrder /\ [][C30_NothingRunAgain]_vars

\* a request answered after three failed sends of one notifier call
C30_Witness ==
    \E i \in Handled :
        /\ inv[i].pc = "done" /\ inv[i].response.status = 200
        /\ inv[i].sends = 3 /\ inv[i].notifierCalls = 1
        /\ inv[i].textCalls = 1 /\ inv[i].validatorCalls = 1
        /\ ~inv[i].emailSent

\* ---------------------------------------------------------------------------
\* healthCheck.  The handler has no await: one call is one step.  The
\* environment of the process is fixed for a run and kept in config["process"].
\* ---------------------------------------------------------------------------
MaxHealthChecks == 3     \* health checks in one run

HealthHeaders == [xForwardedFor : {"", "203.0.113.1"}, xRealIp : {""}]

HealthClientIP(h) ==
    IF h.xForwardedFor # "" THEN h.xForwardedFor
    ELSE IF h.xRealIp # "" THEN h.xRealIp
    ELSE "unknown"

\* `health-${clientIP}`
HealthKey(clientIP) ==
    IF clientIP = "unknown" THEN "health-unknown" ELSE "health-203.0.113.1"

HealthKeys == {HealthKey(HealthClientIP(h)) : h \in HealthHeaders}

\* process.env, process.version, and the calls that may throw
Environments ==
    [APPLICATIONINSIGHTS_CONNECTION_STRING : {"", "endpoint=e", "InstrumentationKey=k"},
     COMMUNICATION_SERVICES_CONNECTION_STRING : {"", "InstrumentationKey=k", "endpoint=e"},
     EMAIL_FROM_ADDRESS : {"", "from@example.com"},
     EMAIL_TO_ADDRESS : {"", "to@example.com"},
     majorVersion : {16, 18},
     memoryUsageThrows : BOOLEAN,
     logThrows : BOOLEAN]

\* connectionString.includes(part)
IncludesPart(connectionString, part) ==
    <<connectionString, part>> \in {<<"InstrumentationKey=k", "InstrumentationKey=">>,
                                     <<"endpoint=e", "endpoint=">>}

checkApplicationInsights(env) ==
    LET connectionString == env.APPLICATIONINSIGHTS_CONNECTION_STRING IN
    IF connectionString = "" THEN "warning"
    ELSE IF ~IncludesPart(connectionString, "InstrumentationKey=") THEN "unhealthy"
    ELSE "healthy"

checkCommunicationServices(env) ==
    LET connectionString == env.COMMUNICATION_SERVICES_CONNECTION_STRING IN
    IF connectionString = "" THEN "unhealthy"
    ELSE IF env.EMAIL_FROM_ADDRESS = "" \/ env.EMAIL_TO_ADDRESS = "" THEN "unhealthy"
    ELSE IF ~IncludesPart(connectionString, "endpoint=") THEN "unhealthy"
    ELSE "healthy"

RecommendedVersion == 18

checkRuntime(env) ==
    IF env.majorVersion < RecommendedVersion THEN "warning"
    ELSE IF env.memoryUsageThrows THEN "unhealthy"
    ELSE "healthy"

\* criticalChecks.filter(check => healthStatus.checks[check].status !== 'healthy')
failedCriticalChecks(checks) ==
    {c \in {"communicationServices", "runtime"} : checks[c] # "healthy"}

\* healthCheck(request, context) with Date.now() = t on the entry stored for
\* its key: the entry it leaves and the record of the call.
healthCheck(env, cfg, entry, h, t) ==
    LET clientIP == HealthClientIP(h)
        rateLimit == isAllowed(cfg, entry, t)
        checks == [applicationInsights |-> checkApplicationInsights(env),
                   communicationServices |-> checkCommunicationServices(env),
                   runtime |-> checkRuntime(env)]
        status == IF failedCriticalChecks(checks) # {} THEN "unhealthy" ELSE "healthy"
        call == [pc |-> "done", kind |-> "healthCheck", clientIP |-> clientIP,
                 rateLimit |-> rateLimit.result, checks |-> checks, threw |-> FALSE]
    IN  [entry |-> rateLimit.entry,
         call |->
           IF ~rateLimit.result.allowed
           THEN [call EXCEPT !.checks = [c \in DOMAIN checks |-> "not run"]]
                  @@ [response |-> [status |-> 429, headers |-> securityHeaders,
                                    RetryAfter |-> RetryAfter(rateLimit.result.resetTime, t),
                                    body |-> [status |-> "none"]]]
           ELSE IF env.logThrows
           THEN [call EXCEPT !.threw = TRUE]
                  @@ [response |-> [status |-> 503, headers |-> securityHeaders,
                                    RetryAfter |-> 0, body |-> [status |-> "unhealthy"]]]
           ELSE call
                  @@ [response |-> [status |-> IF status = "healthy" THEN 200 ELSE 503,
                                    headers |-> securityHeaders, RetryAfter |-> 0,
                                    body |-> [status |-> status]]]]

HealthCheckCalled(i, h) ==
    /\ inv[i].pc \in {"idle", "done"}
    /\ posts < MaxHealthChecks
    /\ LET k == HealthKey(HealthClientIP(h))
           r == healthCheck(config["process"], config["globalRateLimiter"],
                            requests["globalRateLimiter"][k], h, now)
       IN  /\ requests' = [requests EXCEPT !["globalRateLimiter"][k] = r.entry]
           /\ inv' = [inv EXCEPT ![i] = r.call]
    /\ posts' = posts + 1
    /\ UNCHANGED <<now, config, last, window>>

InitHealth ==
    /\ now = 0
    /\ \E env \in Environments :
         config = [l \in Limiters \cup {"process"} |->
                      IF l = "process" THEN env ELSE ModuleConfig[l]]
    /\ requests = [l \in Limiters |-> [k \in HealthKeys |->
                      IF l = "globalRateLimiter" THEN WarmGlobalEntry ELSE NoEntry]]
    /\ last = NoCall
    /\ window = [l \in Limiters |-> [k \in HealthKeys |-> NoWindow]]
    /\ inv = [i \in Invocations |-> NoInvocation]
    /\ posts = 0

NextHealth ==
    \/ Tick
    \/ \E i \in Invocations : \E h \in HealthHeaders : HealthCheckCalled(i, h)

SpecHealth == InitHealth /\ [][NextHealth]_vars

\* ---------------------------------------------------------------------------
\* C31: a health check that is not rate-limited answers 200 with status
\* 'healthy' when all checks are healthy, and answers 503 with status
\* 'unhealthy' only when communicationServices or runtime is unhealthy or the
\* check threw; a check in 'warning' state does not make the answer a 503.
\* ---------------------------------------------------------------------------
HealthChecked ==
    {i \in Invocations : inv[i].pc = "done" /\ inv[i].kind = "healthCheck"
                         /\ inv[i].rateLimit.allowed}

C31_HealthStatus ==
    \A i \in HealthChecked :
        LET r == inv[i] IN
        /\ (~r.threw /\ \A c \in DOMAIN r.checks : r.checks[c] = "healthy")
              => r.response.status = 200 /\ r.response.body.status = "healthy"
        /\ r.response.status \in {200, 503}
        /\ r.response.status = 503 =>
              /\ r.response.body.status = "unhealthy"
              /\ \/ r.threw
                 \/ r.checks.communicationServices = "unhealthy"
                 \/ r.checks.runtime = "unhealthy"

\* ---------------------------------------------------------------------------
\* The POSTs of the clients with a count of their own: window[l][k] is the
\* window of the per-identifier entry of k as an observer keeps it, seen the
\* POSTs of k in it, failed those of them answered 400 or 500 so far.
\* ---------------------------------------------------------------------------
NoBudgetWindow == [opened |-> FALSE, seen |-> 0, failed |-> 0]

BudgetBodies == {MalformedJson, Parsed(JNull), Parsed(ValidPlan), Parsed(InvalidPlan)}

\* the POST that inv[i] holds was answered 400 or 500 in the window that entry is
FailedIn(r, entry) ==
    /\ r.pc = "done" /\ r.kind = "submitPlan" /\ r.method = "POST"
    /\ r.response.status \in {400, 500}
    /\ r.ipEntry.resetTime = entry.resetTime

PostCounted(i, h) ==
    /\ InBounds("POST", h)
    /\ SubmitPlanRuns(i, "POST", h)
    /\ LET k == ClientIP(h)
           before == requests["submitPlanRateLimiter"][k]
           after == requests'["submitPlanRateLimiter"][k]
           w == window["submitPlanRateLimiter"][k]
           failed == w.failed + (IF FailedIn(inv[i], before) THEN 1 ELSE 0)
       IN  window' = [window EXCEPT !["submitPlanRateLimiter"][k] =
                        IF after.resetTime # before.resetTime
                        THEN [opened |-> TRUE, seen |-> 1, failed |-> 0]
                        ELSE [w EXCEPT !.seen = @ + 1, !.failed = failed]]

InitBudget ==
    /\ now = 0
    /\ config = ModuleConfig
    /\ requests = [l \in Limiters |-> [k \in Identifiers |-> NoEntry]]
    /\ last = NoCall
    /\ window = [l \in Limiters |-> [k \in Identifiers |-> NoBudgetWindow]]
    /\ inv = [i \in Invocations |-> NoInvocation]
    /\ posts = 0

NextBudget ==
    \/ Tick
    \/ \E i \in Invocations, h \in RequestHeaders : PostCounted(i, h)
    \/ \E i \in Invocations, body \in BudgetBodies :
          TextSettles(i, body, JNull, FALSE, TypicalRandom)
    \/ \E i \in Invocations : FlushSettles(i)

SpecBudget == InitBudget /\ [][NextBudget]_vars

\* ---------------------------------------------------------------------------
\* C32: a POST is counted in its identifier's window before its body is
\* read, whatever its answer turns out to be: the entry counts every POST of
\* the window up to 10, and a POST that follows 10 POSTs of its identifier
\* answered 400 or 500 in the same window is answered 429, its body unread.
\* ---------------------------------------------------------------------------
C32_Window(r) == window["submitPlanRateLimiter"][r.clientIP]

C32_FailedPostsAreCounted ==
    \A i \in Handled :
        LET r == inv[i]
            w == C32_Window(r)
            e == requests["submitPlanRateLimiter"][r.clientIP]
        IN  r.method = "POST" =>
              /\ r.ipEntry.count >= 1
              /\ e.resetTime = r.ipEntry.resetTime =>
                    /\ e.count = (IF w.seen < SubmitPlanMaxRequests THEN w.seen
                                  ELSE SubmitPlanMaxRequests)
                    /\ r.ipRateLimit.allowed <=> w.seen <= SubmitPlanMaxRequests
                    /\ w.failed >= SubmitPlanMaxRequests =>
                          /\ r.response.status = 429
                          /\ r.text = "unread" /\ r.textCalls = 0

\* ten POSTs answered 400 or 500, none answered 200, and the next one is denied
C32_Witness ==
    \E i \in Handled :
        /\ inv[i].method = "POST" /\ inv[i].response.status = 429
        /\ C32_Window(inv[i]).failed = SubmitPlanMaxRequests
        /\ C32_Window(inv[i]).seen = SubmitPlanMaxRequests + 1

\* ---------------------------------------------------------------------------
\* C33: in a RateLimiter with maxRequests >= 1 every stored entry has
\* 1 <= count <= maxRequests; every result of isAllowed has
\* 0 <= remaining <= maxRequests - 1; a result is denied only with
\* remaining = 0 and before the entry's resetTime; and the resetTime of an
\* allowed result lies after the time of the call.
\* ---------------------------------------------------------------------------
C33_EntriesAndResultsInRange ==
    /\ \A l \in Limiters : \A k \in DOMAIN requests[l] :
          requests[l][k] # NoEntry =>
              /\ 1 <= requests[l][k].count
              /\ requests[l][k].count <= config[l].maxRequests
    /\ last # NoCall =>
          LET res == last.result
              max == config[last.lim].maxRequests
          IN  /\ 0 <= res.remaining /\ res.remaining <= max - 1
              /\ ~res.allowed => res.remaining = 0 /\ last.at < res.resetTime
              /\ res.allowed => res.resetTime > last.at
              /\ last.after # NoEntry
              /\ res.resetTime = last.after.resetTime

\* a call denied at the last millisecond of a full window
C33_Witness ==
    /\ last # NoCall
    /\ ~last.result.allowed
    /\ last.after.count = config[last.lim].maxRequests
    /\ config[last.lim].maxRequests = MaxN
    /\ last.at = last.result.resetTime - 1

\* ---------------------------------------------------------------------------
\* POSTs of two clients in flight at once, from a cold start, while the
\* email provider accepts every message.
\* ---------------------------------------------------------------------------
MaxClientPosts == 3      \* POSTs of the two clients in one run

ClientPosts == 1..MaxClientPosts

TwoClients ==
    {[xForwardedFor |-> "203.0.113.1", xRealIp |-> "", xClientIp |-> ""],
     [xForwardedFor |-> "", xRealIp |-> "", xClientIp |-> ""]}

\* A POST of one of the clients arrives; the slots are taken in order.
PostArrivesFrom(i, h) ==
    /\ inv[i].pc = "idle"
    /\ i > 1 => inv[i - 1].pc # "idle"
    /\ SubmitPlanRuns(i, "POST", h)
    /\ UNCHANGED window

InitClients ==
    /\ now = 0
    /\ config = ModuleConfig
    /\ requests = [l \in Limiters |-> [k \in Identifiers |-> NoEntry]]
    /\ last = NoCall
    /\ window = [l \in Limiters |-> [k \in Identifiers |-> NoWindow]]
    /\ inv = [i \in ClientPosts |-> NoInvocation]
    /\ posts = 0

NextClients ==
    \/ \E i \in ClientPosts, h \in TwoClients : PostArrivesFrom(i, h)
    \/ \E i \in ClientPosts, body \in {Parsed(ValidPlan), Parsed(InvalidPlan)} : PlanRead(i, body)
    \/ \E i \in ClientPosts : BeginSendSettles(i, TRUE)
    \/ \E i \in ClientPosts : PollSettles(i, "Succeeded")
    \/ \E i \in ClientPosts : FlushSettles(i)

SpecClients == InitClients /\ [][NextClients]_vars

\* ---------------------------------------------------------------------------
\* C34: a call of isAllowed(k) leaves the entry of every other key as it
\* was; so a client's entry counts its own POSTs only, the budget a POST is
\* told is what its own client has left, and POSTs of distinct clients in
\* flight at once all pass while the global limit is not reached.
\* ---------------------------------------------------------------------------
C34_PostsOf(k) == {i \in Posted : inv[i].clientIP = k}

C34_OwnBudget ==
    /\ \A k \in Identifiers \ {"global"} :
          requests["submitPlanRateLimiter"][k].count = Cardinality(C34_PostsOf(k))
    /\ \A i \in Posted :
          /\ inv[i].globalRateLimit.allowed /\ inv[i].ipRateLimit.allowed
          /\ inv[i].ipRateLimit.remaining
                = SubmitPlanMaxRequests
                    - Cardinality({j \in C34_PostsOf(inv[i].clientIP) : j <= i})
          /\ (inv[i].pc = "done" /\ inv[i].validation = "valid")
                => inv[i].response.status = 200

C34_OthersUntouched ==
    \A k \in Identifiers :
        requests'["submitPlanRateLimiter"][k] # requests["submitPlanRateLimiter"][k]
        => \E i \in ClientPosts :
              /\ inv[i].pc = "idle" /\ inv'[i].pc # "idle"
              /\ inv'[i].clientIP = k

C34_FrameOfIsAllowed == [][C34_OthersUntouched /\ C34_OwnBudget']_vars

\* three POSTs of two clients; one of each client, with a valid plan, is
\* about to be answered 200 while the other is
C34_Witness ==
    /\ Cardinality(C34_PostsOf("unknown")) = 1
    /\ Cardinality(C34_PostsOf("203.0.113.1")) = 2
    /\ \E i, j \in ClientPosts :
          /\ inv[i].clientIP = "unknown" /\ inv[j].clientIP = "203.0.113.1"
          /\ inv[i].pc = "flush" /\ inv[i].flushStatus = 200 /\ inv[i].emailSent
          /\ inv[j].pc = "flush" /\ inv[j].flushStatus = 200 /\ inv[j].emailSent

\* ---------------------------------------------------------------------------
\* POSTs that differ in their headers only: every POST of a run carries the
\* same JSON body, kept in last.body, and its own User-Agent and client
\* address headers.  COMMUNICATION_SERVICES_CONNECTION_STRING is not set, so
\* a valid plan is answered without a send.
\* ---------------------------------------------------------------------------
MaxHeaderPosts == 2      \* POSTs of one run

HeaderPosts == 1..MaxHeaderPosts

\* a User-Agent header that holds a match of /javascript:/gi
ScriptedUserAgent ==
    JString(<<"M","o","z","i","l","l","a","/","5",".","0"," ","(","j","a","v","a","s","c","r","i","p","t",":",")">>)

HeaderUserAgents == UserAgents \cup {ScriptedUserAgent}

SentBody(b) == [lim |-> "body", body |-> b]

\* await request.text() settles with the body of the run; the handler adds
\* the metadata read from the headers and validates.
BodyRead(i, userAgent) ==
    TextSettles(i, last.body, userAgent, FALSE, TypicalRandom)

InitHeaders ==
    /\ now = 0
    /\ config = ModuleConfig
    /\ requests = [l \in Limiters |-> [k \in Identifiers |-> NoEntry]]
    /\ last \in {SentBody(Parsed(b)) : b \in BasePlans}
    /\ window = [l \in Limiters |-> [k \in Identifiers |-> NoWindow]]
    /\ inv = [i \in HeaderPosts |-> NoInvocation]
    /\ posts = 0

NextHeaders ==
    \/ \E i \in HeaderPosts, h \in TwoClients : PostArrivesFrom(i, h)
    \/ \E i \in HeaderPosts, userAgent \in HeaderUserAgents : BodyRead(i, userAgent)
    \/ \E i \in HeaderPosts : FlushSettles(i)

SpecHeaders == InitHeaders /\ [][NextHeaders]_vars

\* the POSTs that passed both rate limits and were answered
C35_Answered ==
    {i \in HeaderPosts : /\ inv[i].pc = "done"
                         /\ inv[i].globalRateLimit.allowed /\ inv[i].ipRateLimit.allowed}

\* ---------------------------------------------------------------------------
\* C35: two POSTs with identical bodies that both pass the rate limits
\* receive the same status and the same validation errors, whatever their
\* User-Agent and client address headers.
\* ---------------------------------------------------------------------------
C35_VerdictFromBodyOnly ==
    \A i, j \in C35_Answered :
        /\ inv[i].response.status = inv[j].response.status
        /\ inv[i].errors = inv[j].errors

\* ---------------------------------------------------------------------------
\* ApiService.submitPlan: the payload made of the plan details.  The browser
\* runs in UTC; a day is held as its number since 1970-01-01.
\* ---------------------------------------------------------------------------
\* s.split(c)
RECURSIVE Split(_, _)
Split(s, c) ==
    IF \A i \in 1..Len(s) : s[i] # c THEN <<s>>
    ELSE LET k == CHOOSE i \in 1..Len(s) : s[i] = c /\ \A j \in 1..(i - 1) : s[j] # c
         IN  <<SubSeq(s, 1, k - 1)>> \o Split(SubSeq(s, k + 1, Len(s)), c)

\* s.includes(part)
includes(s, part) ==
    \E i \in 1..(Len(s) - Len(part) + 1) : SubSeq(s, i, i + Len(part) - 1) = part

\* s.padStart(targetLength, c)
padStart(s, targetLength, c) ==
    IF Len(s) >= targetLength THEN s ELSE Rep(c, targetLength - Len(s)) \o s

\* parseInt(s, 10) of a string that starts with neither white space nor a
\* sign: the number its leading digits write, NaN when there is none
parseInt(s) ==
    LET n == CHOOSE k \in 0..Len(s) :
                 /\ \A j \in 1..k : s[j] \in Digit
                 /\ k < Len(s) => s[k + 1] \notin Digit
    IN  IF n = 0 THEN [nan |-> TRUE, n |-> 0]
        ELSE [nan |-> FALSE, n |-> NumberOf(SubSeq(s, 1, n))]

\* what a template literal makes of a part that a destructuring left
\* undefined
UndefinedChars == <<"u","n","d","e","f","i","n","e","d">>
NaNChars == <<"N","a","N">>

\* a conversion that leaves the hour of the 12-hour clock as it is
convertTo24HourKeepingHour(time12h) ==
    LET parts == Split(time12h, " ")
        hm    == Split(parts[1], ":")
    IN  padStart(hm[1], 2, "0") \o <<":">> \o (IF Len(hm) >= 2 THEN hm[2] ELSE UndefinedChars)

\* convertTo24Hour(time12h)
convertTo24Hour(time12h) ==
    LET parts    == Split(time12h, " ")
        time     == parts[1]
        modifier == IF Len(parts) >= 2 THEN parts[2] ELSE UndefinedChars
        hm       == Split(time, ":")
        minutes  == IF Len(hm) >= 2 THEN hm[2] ELSE UndefinedChars
        hours0   == IF hm[1] = <<"1","2">> THEN <<"0","0">> ELSE hm[1]
        hours    == IF modifier = <<"P","M">> /\ Len(parts) >= 2
                    THEN LET p == parseInt(hours0) IN
                         IF p.nan THEN NaNChars ELSE DigitsOf(p.n + 12)
                    ELSE hours0
    IN  padStart(hours, 2, "0") \o <<":">> \o minutes

\* timeForApi of submitPlan
TimeForApi(time) ==
    IF time = <<"A","n","y","t","i","m","e">> THEN <<"1","2",":","0","0">>
    ELSE IF includes(time, <<"P","M">>) \/ includes(time, <<"A","M">>)
    THEN convertTo24Hour(time)
    ELSE time

\* year, month and day of the day numbered z since 1970-01-01
CivilFromDays(z) ==
    LET zz  == z + 719468
        era == zz \div 146097
        doe == zz - era * 146097
        yoe == (doe - doe \div 1460 + doe \div 36524 - doe \div 146096) \div 365
        doy == doe - (365 * yoe + yoe \div 4 - yoe \div 100)
        mp  == (5 * doy + 2) \div 153
        d   == doy - (153 * mp + 2) \div 5 + 1
        m   == IF mp < 10 THEN mp + 3 ELSE mp - 9
    IN  [y |-> yoe + era * 400 + (IF m <= 2 THEN 1 ELSE 0), m |-> m, d |-> d]

\* date.toISOString() of midnight of a day
toISOString(day) ==
    LET c == CivilFromDays(day) IN
    padStart(DigitsOf(c.y), 4, "0") \o <<"-">> \o padStart(DigitsOf(c.m), 2, "0") \o <<"-">>
        \o padStart(DigitsOf(c.d), 2, "0")
        \o <<"T","0","0",":","0","0",":","0","0",".","0","0","0","Z">>

\* the characters of the times and of the activity ids of the Planner
TimeChars(time) ==
    CASE time = "7:00 PM" -> <<"7",":","0","0"," ","P","M">>
      [] time = "Anytime" -> <<"A","n","y","t","i","m","e">>
      [] OTHER -> <<>>
IdChars(id) ==
    CASE id = "dinner" -> <<"d","i","n","n","e","r">>
      [] id = "surprise-me" -> <<"s","u","r","p","r","i","s","e","-","m","e">>
      [] id = "movie" -> <<"m","o","v","i","e">>
      [] OTHER -> <<>>

\* the payload submitPlan posts, as the server parses it: JSON.stringify
\* leaves out a customActivity that is undefined
SubmitPlanPayload(planDetails) ==
    JObject(<<Member("name", JString(planDetails.name)),
              Member("date", JString(toISOString(IF planDetails.date # NoDate
                                                 THEN planDetails.date ELSE Today))),
              Member("time", JString(TimeForApi(TimeChars(planDetails.time)))),
              Member("activities",
                     JArray([k \in 1..Len(planDetails.activities) |->
                                JString(IdChars(planDetails.activities[k]))]))>>
            \o (IF planDetails.customActivity = <<>> THEN <<>>
                ELSE <<Member("customActivity", JString(planDetails.customActivity))>>)
            \o <<Member("submittedAt", JString(toISOString(Today)))>>)

\* the App instances whose plan has been posted
C36_Posted == {i \in Invocations : inv[i].pc = "mounted" /\ inv[i].calls > 0}

\* ---------------------------------------------------------------------------
\* C36: every plan the Planner lets the user finalize is posted as a payload
\* whose time, activities and customActivity pass the server's field rules.
\* ---------------------------------------------------------------------------
C36_FinalizedPlanPasses ==
    \A i \in C36_Posted :
        LET payload == SubmitPlanPayload(inv[i].submitted) IN
        /\ TimeErrors(payload) = <<>>
        /\ ActivitiesErrors(payload) = <<>>
        /\ CustomActivityErrors(payload) = <<>>

\* the part that holds: a plan with a selected activity passes the three
\* field rules; a plan with a custom activity alone is posted with
\* activities [] and fails 'At least one activity is required'
C36_SelectedActivityPasses ==
    \A i \in C36_Posted :
        LET payload == SubmitPlanPayload(inv[i].submitted) IN
        /\ TimeErrors(payload) = <<>>
        /\ CustomActivityErrors(payload) = <<>>
        /\ ActivitiesErrors(payload) = <<>> <=> Len(inv[i].submitted.activities) > 0

\* ---------------------------------------------------------------------------
\* C37: the step of the wizard moves only along INITIAL -> PLANNING,
\* INITIAL -> MAYBE, MAYBE -> PLANNING, PLANNING -> SUMMARY,
\* SUMMARY -> PLANNING and SUMMARY -> CONFIRMED; it never leaves CONFIRMED,
\* is never REJECTED, and is SUMMARY only with a plan that has a date, a
\* time, a non-blank name and an activity or a non-blank custom activity.
\* ---------------------------------------------------------------------------
C37_Moves ==
    {<<"INITIAL", "PLANNING">>, <<"INITIAL", "MAYBE">>, <<"MAYBE", "PLANNING">>,
     <<"PLANNING", "SUMMARY">>, <<"SUMMARY", "PLANNING">>, <<"SUMMARY", "CONFIRMED">>}

C37_StepMovesAlong ==
    \A i \in Invocations : IsApp(i) =>
        /\ inv'[i].step # inv[i].step => <<inv[i].step, inv'[i].step>> \in C37_Moves
        /\ inv[i].step = "CONFIRMED" => inv'[i].step = "CONFIRMED"
        /\ inv'[i].step # "REJECTED"
        /\ inv'[i].step = "SUMMARY" => C28_Complete(inv'[i].planDetails)

C37_WizardSteps == [][C37_StepMovesAlong]_vars

\* an App shows the summary of a plan with a custom activity alone
C37_Witness ==
    \E i \in Invocations :
        /\ IsApp(i)
        /\ inv[i].step = "SUMMARY"
        /\ C28_Complete(inv[i].planDetails)
        /\ inv[i].planDetails.activities = <<>>
        /\ inv[i].planDetails.customActivity # <<>>

\* ---------------------------------------------------------------------------
\* C38: in every state of the Planner a non-empty customActivity comes with
\* no selected activity, 'surprise-me' is selected alone or not at all, and
\* no activity id is selected twice.
\* ---------------------------------------------------------------------------
C38_Exclusive(d) ==
    /\ d.customActivity # <<>> => d.activities = <<>>
    /\ Includes(d.activities, "surprise-me") => d.activities = <<"surprise-me">>
    /\ \A j, k \in 1..Len(d.activities) : d.activities[j] = d.activities[k] => j = k

Modifiers == {<<"A","M">>, <<"P","M">>}

\* 'h:mm AM' or 'h:mm PM' as formatTime and SUGGESTED_TIMES write it
TwelveHourTime(h, mm, modifier) ==
    DigitsOf(h) \o <<":">> \o padStart(DigitsOf(mm), 2, "0") \o <<" ">> \o modifier

TwelveHourTimes ==
    {TwelveHourTime(h, mm, modifier) : h \in 1..12, mm \in 0..59, modifier \in Modifiers}

Anytime == <<"A","n","y","t","i","m","e">>

\* the first statements of submitPlan: timeForApi
TimeForApiComputed(i) ==
    /\ inv[i].pc = "called" /\ inv[i].kind = "timeForApi"
    /\ inv' = [inv EXCEPT ![i] =
                 [pc |-> "done", kind |-> "timeForApi", time |-> inv[i].time,
                  timeForApi |-> TimeForApi(inv[i].time)]]
    /\ UNCHANGED <<now, config, requests, last, window, posts>>

InitTimes ==
    /\ now = 0
    /\ config = ModuleConfig
    /\ requests = [l \in Limiters |-> [k \in Identifiers |-> NoEntry]]
    /\ last = NoCall
    /\ window = [l \in Limiters |-> [k \in Identifiers |-> NoWindow]]
    /\ posts = 0
    /\ \E time \in TwelveHourTimes \cup {Anytime} :
          inv = [i \in Invocations |->
                   IF i = 1 THEN [pc |-> "called", kind |-> "timeForApi", time |-> time]
                   ELSE NoInvocation]

NextTimes == \E i \in Invocations : TimeForApiComputed(i)

SpecTimes == InitTimes /\ [][NextTimes]_vars

\* the hour, the minutes and the half of the day a 12-hour time names
C39_Colon(time) == CHOOSE k \in 1..Len(time) : time[k] = ":"
C39_Hour(time) == NumberOf(SubSeq(time, 1, C39_Colon(time) - 1))
C39_Minutes(time) == SubSeq(time, C39_Colon(time) + 1, C39_Colon(time) + 2)
C39_IsPM(time) == SubSeq(time, Len(time) - 1, Len(time)) = <<"P","M">>

\* the hour of the 24-hour clock: 12 AM is 0, 12 PM is 12, the other PM
\* hours are 12 later
C39_Hour24(time) == (C39_Hour(time) % 12) + (IF C39_IsPM(time) THEN 12 ELSE 0)

C39_TwoDigits(n) == <<DigitSeq[(n \div 10) + 1], DigitSeq[(n % 10) + 1]>>

C39_Converted == {i \in Invocations : inv[i].pc = "done" /\ inv[i].kind = "timeForApi"}

\* ---------------------------------------------------------------------------
\* C39: a time 'h:mm AM' or 'h:mm PM' is sent as the same time of the
\* 24-hour clock, with a two-digit hour and the minutes as they were, which
\* the server's time rule accepts; 'Anytime' is sent as '12:00'.
\* ---------------------------------------------------------------------------
C39_TimeSentIn24Hours ==
    \A i \in C39_Converted :
        LET time == inv[i].time
            sent == inv[i].timeForApi
        IN  IF time = Anytime THEN sent = <<"1","2",":","0","0">>
            ELSE /\ sent = C39_TwoDigits(C39_Hour24(time)) \o <<":">> \o C39_Minutes(time)
                 /\ MatchesTime(sent)

\* '12:30 AM' has been converted, to a time in the hour 00
C39_Witness ==
    \E i \in C39_Converted :
        /\ inv[i].time = <<"1","2",":","3","0"," ","A","M">>
        /\ SubSeq(inv[i].timeForApi, 1, 2) = <<"0","0">>

====
